---- MODULE Spec2Model ----
(***************************************************************************)
(* A model of TEFingerprint's univariate density clustering                *)
(* (tefingerprint/cluster.py: UDBSCANx, UDBSCANxH) and of the interval     *)
(* melt of tectoolkit/loci.py.                                             *)
(*                                                                         *)
(* Arrays are TLA+ sequences (1-based); every index the Python code uses   *)
(* is kept 0-based and converted at the point of access.  Coordinates are  *)
(* genomic positions, far below 2^63, so int64 arithmetic never wraps.     *)
(* Python's None is the empty tuple and a present integer v is <<v>>.      *)
(***************************************************************************)
EXTENDS Integers, Sequences, FiniteSets, TLC

VARIABLES model, fit_array, pc, points, stack, clusters, visit,
          loci, melted, remelted,
          args, bins, merged, reads, comparison, fprint,
          sam, parsed,
          constructed, before, fits,
          rgroup, locus, subset,
          clip, dangler,
          program, dirs, files, temp_dir, jobs, step, runs

\* the clusterer and the call of fit in progress
clusterVars == <<model, fit_array, pc, points, stack, clusters, visit>>
\* the interval array given to the melter and what came out of it
meltVars == <<loci, melted, remelted>>
\* the loci groups and the results of the operations on them
groupVars == <<args, bins, merged, reads, comparison, fprint>>
\* the SAM line being parsed and the result
samVars == <<sam, parsed>>
\* the clusterer as it was constructed, as it was before the call of fit
\* in progress, and the number of calls of fit made on it
refitVars == <<constructed, before, fits>>
\* a ReadGroup, the arguments of subset_by_locus and the group it returned
readVars == <<rgroup, locus, subset>>
\* a read of the repeat-element BAM given to a tail-clip extractor and
\* what the extractor yielded for it
clipVars == <<clip, dangler>>
\* the preprocessing program, the directories and files on disk, and the
\* locals of the call of PreProcessProgram.run in progress
progVars == <<program, dirs, files, temp_dir, jobs, step, runs>>
\* everything outside the clusterer, the melter, the loci groups and the
\* SAM parsers
otherVars == <<refitVars, readVars, clipVars, progVars>>

vars == <<model, fit_array, pc, points, stack, clusters, visit,
          loci, melted, remelted,
          args, bins, merged, reads, comparison, fprint,
          sam, parsed,
          constructed, before, fits,
          rgroup, locus, subset,
          clip, dangler,
          program, dirs, files, temp_dir, jobs, step, runs>>

(***************************************************************************)
(* Bounds of the model.                                                    *)
(***************************************************************************)
MaxLen == 6        \* longest sorted input array
MaxVal == 3        \* coordinates are drawn from 0..MaxVal
MaxAnyLen == 2     \* every array (sorted or not) up to this length is an input
MaxPoints == 3     \* min_points is drawn from 2..MaxPoints
MaxEps == 3        \* epsilon / max_eps are drawn from 0..MaxEps
MaxMinEps == 1     \* min_eps is drawn from None and 1..MaxMinEps
MaxLoci == 3       \* longest interval sequence given to the melter
MaxCoord == 2      \* loci of the loci groups lie in 0..MaxCoord
MaxBins == 2       \* most intervals in one group of a FingerPrint
MaxReads == 2      \* most reads in one group of a ReadLoci
MaxPos == 7        \* POS of a SAM line is drawn from 1..MaxPos
MaxSeqLen == 7     \* SEQ of a SAM line has 1..MaxSeqLen bases
MaxBases == 4      \* SEQ of a read given to a tail-clip extractor has 1..MaxBases bases
MaxBam == 2        \* most reads in the BAM file given to the preprocessing program
MaxRuns == 2       \* most calls of PreProcessProgram.run on one program
MaxFits == 2       \* most calls of fit on one clusterer
MaxRefitLen == 4   \* longest sorted array fitted by a clusterer that is fitted again

None == <<>>
Some(v) == <<v>>
Val(o) == o[1]

(***************************************************************************)
(* The numpy / Python primitives the code relies on.                       *)
(***************************************************************************)
Min2(a, b) == IF a <= b THEN a ELSE b
Max2(a, b) == IF a >= b THEN a ELSE b

\* Python slice bound normalisation: negative bounds count from the end,
\* everything is clamped to 0..n.
PyBound(i, n) == IF i < 0 THEN Max2(n + i, 0) ELSE Min2(i, n)

\* a[start:stop]
PySlice(a, start, stop) ==
    LET lo == PyBound(start, Len(a))
        hi == PyBound(stop, Len(a))
    IN  IF hi <= lo THEN <<>> ELSE SubSeq(a, lo + 1, hi)

\* a[start:]
PyFrom(a, start) == PySlice(a, start, Len(a))

\* a[i] with a 0-based index
At(a, i) == a[i + 1]

\* upper - lower on two arrays of equal length
NpSub(a, b) == [i \in 1..Len(a) |-> a[i] - b[i]]

NpMax(a) == CHOOSE m \in {a[i] : i \in 1..Len(a)} : \A i \in 1..Len(a) : a[i] <= m
NpMin(a) == CHOOSE m \in {a[i] : i \in 1..Len(a)} : \A i \in 1..Len(a) : m <= a[i]

RECURSIVE NpSum(_)
NpSum(a) == IF Len(a) = 0 THEN 0 ELSE a[1] + NpSum(Tail(a))

\* a[mask] for a boolean mask of the same length
RECURSIVE NpMask(_, _)
NpMask(a, mask) ==
    IF Len(a) = 0 THEN <<>>
    ELSE (IF mask[1] THEN <<a[1]>> ELSE <<>>) \o NpMask(Tail(a), Tail(mask))

\* ndarray.sort() of an integer array
NpSort(a) == SortSeq(a, LAMBDA x, y : x < y)

\* np.arange(lo, hi)
NpArange(lo, hi) == IF hi <= lo THEN <<>> ELSE [i \in 1..(hi - lo) |-> lo + i - 1]

(***************************************************************************)
(* UDBSCANx                                                                *)
(***************************************************************************)
\* np.sum(array[1:] - array[:-1] < 0) == 0
sorted_ascending(array) ==
    LET diff == NpSub(PyFrom(array, 1), PySlice(array, 0, -1))
    IN  NpSum([i \in 1..Len(diff) |-> IF diff[i] < 0 THEN 1 ELSE 0]) = 0

\* subcluster with the span compared strictly
subcluster_strict(array, min_points, epsilon) ==
    LET offset == min_points - 1
        upper == PyFrom(array, offset)
        lower == PySlice(array, 0, -offset)
        selected == [i \in 1..Len(lower) |-> upper[i] - lower[i] < epsilon]
        lower_index == NpMask(NpArange(0, Len(lower)), selected)
        upper_arange == NpMask(NpArange(offset, Len(array)), selected)
        upper_index == [i \in 1..Len(upper_arange) |-> upper_arange[i] + 1]
    IN  [i \in 1..Len(lower_index) |->
            [lower |-> lower_index[i], upper |-> upper_index[i]]]

\* the slices [j, j + min_points) whose span is <= epsilon
subcluster(array, min_points, epsilon) ==
    LET offset == min_points - 1
        upper == PyFrom(array, offset)
        lower == PySlice(array, 0, -offset)
        selected == [i \in 1..Len(lower) |-> upper[i] - lower[i] <= epsilon]
        lower_index == NpMask(NpArange(0, Len(lower)), selected)
        upper_arange == NpMask(NpArange(offset, Len(array)), selected)
        upper_index == [i \in 1..Len(upper_arange) |-> upper_arange[i] + 1]
    IN  [i \in 1..Len(lower_index) |->
            [lower |-> lower_index[i], upper |-> upper_index[i]]]

\* the generator _melter: walks the sorted lowers and uppers, a split at i
\* closes the running slice
RECURSIVE melter(_, _, _, _, _, _)
melter(lowers, uppers, splits, i, l, u) ==
    IF i >= Len(lowers) THEN << [lower |-> l, upper |-> u] >>
    ELSE IF At(splits, i)
         THEN << [lower |-> l, upper |-> u] >>
              \o melter(lowers, uppers, splits, i + 1, At(lowers, i), At(uppers, i))
         ELSE melter(lowers, uppers, splits, i + 1, l, At(uppers, i))

\* melt_splits that takes touching half-open slices for overlapping ones
melt_splits_touching(lowers, uppers) ==
    <<FALSE>> \o [i \in 1..(Len(lowers) - 1) |-> uppers[i] < lowers[i + 1]]

\* True means a gap between slice i-1 and slice i
melt_splits(lowers, uppers) ==
    <<FALSE>> \o [i \in 1..(Len(lowers) - 1) |-> uppers[i] <= lowers[i + 1]]

melt_slices(slices) ==
    LET lowers == NpSort([i \in 1..Len(slices) |-> slices[i].lower])
        uppers == NpSort([i \in 1..Len(slices) |-> slices[i].upper])
        splits == melt_splits(lowers, uppers)
    IN  melter(lowers, uppers, splits, 1, At(lowers, 0), At(uppers, 0))

\* _cluster that returns the sub-clusters without melting them
cluster_unmelted(array, min_points, epsilon) ==
    subcluster(array, min_points, epsilon)

\* UDBSCANx._cluster: the sub-clusters, melted when there are several
cluster(array, min_points, epsilon) ==
    LET slices == subcluster(array, min_points, epsilon)
    IN  IF Len(slices) > 1 THEN melt_slices(slices) ELSE slices

\* (input_array[lower], input_array[upper - 1]) for every slice
cluster_extremities(m) ==
    [i \in 1..Len(m.slices) |->
        << At(m.input_array, m.slices[i].lower),
           At(m.input_array, m.slices[i].upper - 1) >>]

(***************************************************************************)
(* UDBSCANxH                                                               *)
(***************************************************************************)
\* one row of the 2d eps table: np.full(..., fill) with row[start:stop] = eps_values
eps_row(eps_values, fill, width, start, stop) ==
    LET lo == PyBound(start, width)
        hi == PyBound(stop, width)
    IN  [c \in 1..width |->
            IF lo <= c - 1 /\ c - 1 < hi THEN At(eps_values, c - 1 - lo) ELSE fill]

\* np.min(eps_2d, axis=0) over the rows 0..rows-1
column_min(eps_2d, rows, width) ==
    [c \in 1..width |-> NpMin([i \in 1..rows |-> eps_2d[i - 1][c]])]

\* core_distances with one shifted copy of eps_values too few
core_distances_short(array, min_points) ==
    LET offset == min_points - 1
        length == Len(array)
        lower == PySlice(array, 0, length - offset)
        upper == PySlice(array, offset, length)
        eps_values == NpSub(upper, lower)
        eps_2d == [i \in 0..(offset - 1) |->
                      eps_row(eps_values, NpMax(eps_values), length,
                              i, length - (offset - i))]
    IN  column_min(eps_2d, offset, length)

\* core_distances is only defined for len(array) >= min_points: on a shorter
\* array np.max of the empty eps_values raises ValueError
core_distances(array, min_points) ==
    LET offset == min_points - 1
        length == Len(array)
        lower == PySlice(array, 0, length - offset)
        upper == PySlice(array, offset, length)
        eps_values == NpSub(upper, lower)
        eps_2d == [i \in 0..(min_points - 1) |->
                      eps_row(eps_values, NpMax(eps_values), length,
                              i, length - (offset - i))]
    IN  column_min(eps_2d, min_points, length)

\* splits with runs of equal values reduced to their first value
remove_plateaus(splits) ==
    LET gradients == NpSub(PyFrom(splits, 1), PySlice(splits, 0, -1))
    IN  NpMask(splits, <<TRUE>> \o [i \in 1..Len(gradients) |-> gradients[i] # 0])

\* the values strictly greater than both neighbours
keep_peaks(splits) ==
    LET rising == NpSub(PyFrom(splits, 1), PySlice(splits, 0, -1))
        is_peak == [i \in 1..Len(splits) |->
                       /\ (<<FALSE>> \o [j \in 1..Len(rising) |-> rising[j] > 0])[i]
                       /\ ([j \in 1..Len(rising) |-> rising[j] < 0] \o <<FALSE>>)[i]]
    IN  NpMask(splits, is_peak)

\* fork_value with the decrement done inside the primitive
fork_value_decremented(peaks) == Some(NpMax(peaks) - 1)

\* the value returned for a cluster that forks
fork_value(peaks) == Some(NpMax(peaks))

\* None, or Some(the largest peak of the gap eps values)
fork_epsilon(array, min_points) ==
    IF Len(array) <= min_points THEN None
    ELSE LET offset == min_points - 1
             eps_values == NpSub(PyFrom(array, offset), PySlice(array, 0, -offset))
             width == Len(eps_values) + offset - 1
             eps_2d == [i \in 0..(offset - 1) |->
                           eps_row(eps_values, NpMax(eps_values), width,
                                   i, Len(eps_values) + i)]
             splits == column_min(eps_2d, offset, width)
             peaks == keep_peaks(remove_plateaus(splits))
         IN  IF Len(peaks) = 0 THEN None ELSE fork_value(peaks)

\* Python truthiness of an optional integer: None and 0 are false
Truthy(o) == o # None /\ Val(o) # 0

\* the structured array points[left:right] with slots value, index, core_dist
make_points(array, core_dist) ==
    [i \in 1..Len(array) |->
        [value |-> array[i], index |-> i - 1, core_dist |-> core_dist[i]]]

Values(local_points) == [i \in 1..Len(local_points) |-> local_points[i].value]
CoreDist(local_points) == [i \in 1..Len(local_points) |-> local_points[i].core_dist]

\* np.maximum(min_eps, core_dist)
floor_core_dist(min_eps, core_dist) ==
    [i \in 1..Len(core_dist) |-> Max2(min_eps, core_dist[i])]

\* np.sum(ceiling - np.maximum(local_min_eps, core_dist))
support_parent(ceiling, local_min_eps, core_dist) ==
    NpSum([i \in 1..Len(core_dist) |-> ceiling - Max2(local_min_eps, core_dist[i])])

\* np.sum(np.maximum(0, local_min_eps - core_dist))
support_of_children(local_min_eps, core_dist) ==
    NpSum([i \in 1..Len(core_dist) |-> Max2(0, local_min_eps - core_dist[i])])

\* support_ceiling with the ceilings of the two methods exchanged
support_ceiling_swapped(method, max_eps, local_max_eps) ==
    IF method = "aggressive" THEN max_eps ELSE local_max_eps

\* the ceiling the parent's support is measured from
support_ceiling(method, max_eps, local_max_eps) ==
    IF method = "aggressive" THEN local_max_eps ELSE max_eps

\* parent_selected with ties going to the children
parent_selected_strict(support, support_children) == support > support_children

\* support >= support_children
parent_selected(support, support_children) == support >= support_children

\* bounds_of that answers with positions inside the local array
bounds_of_local(local_points) == [lower |-> 0, upper |-> Len(local_points)]

\* (index[0], index[-1] + 1)
bounds_of(local_points) ==
    [lower |-> local_points[1].index, upper |-> local_points[Len(local_points)].index + 1]

\* child_calls that hands every child the points of its parent
child_calls_whole(local_points, bounds, eps) ==
    [i \in 1..Len(bounds) |-> [points |-> local_points, local_max_eps |-> eps]]

\* the pending calls _traverse_cluster_tree(points[left:right], eps)
child_calls(local_points, bounds, eps) ==
    [i \in 1..Len(bounds) |->
        [points |-> PySlice(local_points, bounds[i].lower, bounds[i].upper),
         local_max_eps |-> eps]]

(***************************************************************************)
(* Inputs and constructed models.                                          *)
(***************************************************************************)
\* the ascending arrays of length n with values in lo..MaxVal
RECURSIVE SortedFrom(_, _)
SortedFrom(n, lo) ==
    IF n = 0 THEN {<<>>}
    ELSE UNION {{<<v>> \o a : a \in SortedFrom(n - 1, v)} : v \in lo..MaxVal}

SortedArrays == UNION {SortedFrom(n, 0) : n \in 0..MaxLen}

AnyArrays == UNION {[1..n -> 0..MaxVal] : n \in 0..MaxAnyLen}

\* the twelve points of the three-triplet scenario
TripletArray == <<0, 1, 2, 3, 20, 21, 22, 23, 40, 41, 42, 43>>

\* three pairs whose first two form a cluster that forks again
NestedArray == <<0, 0, 2, 2, 5, 5>>

Arrays == SortedArrays \cup AnyArrays \cup {TripletArray, NestedArray}

\* UDBSCANx.__init__ / UDBSCANxH.__init__
NewUDBSCANx(min_points, epsilon) ==
    [class |-> "UDBSCANx", min_points |-> min_points, epsilon |-> Some(epsilon),
     max_eps |-> None, min_eps |-> None, method |-> "",
     slices |-> <<>>, input_array |-> <<>>]

NewUDBSCANxH(min_points, max_eps, min_eps, method) ==
    [class |-> "UDBSCANxH", min_points |-> min_points, epsilon |-> None,
     max_eps |-> max_eps, min_eps |-> min_eps, method |-> method,
     slices |-> <<>>, input_array |-> <<>>]

Methods == {"conservative", "aggressive"}

MaxEpsChoices == {None} \cup {Some(e) : e \in 0..MaxEps}
MinEpsChoices == {None} \cup {Some(e) : e \in 0..MaxMinEps}

\* the models of the scenarios: the three triplets at max_eps 20 and 50,
\* the nested pairs at max_eps 4 and 5 under both methods
ScenarioModels ==
    {NewUDBSCANxH(3, Some(E), None, "conservative") : E \in {20, 50}}
    \cup {NewUDBSCANxH(2, Some(E), None, m) : E \in {4, 5}, m \in Methods}

Models ==
    {NewUDBSCANx(k, e) : k \in 2..MaxPoints, e \in 0..MaxEps}
    \cup {NewUDBSCANxH(k, E, e, m) :
            k \in 2..MaxPoints, E \in MaxEpsChoices, e \in MinEpsChoices, m \in Methods}
    \cup ScenarioModels

(***************************************************************************)
(* The clustering state machine: one constructed model, one call of fit.   *)
(* fit_array is the argument of the call, pc its position: "idle" before    *)
(* it, "traverse" while UDBSCANxH._run walks the cluster tree, "returned"  *)
(* or "raised" after it.  points, stack and clusters are the locals of     *)
(* _run and visit those of the latest call of _traverse_cluster_tree.      *)
(***************************************************************************)
InitCluster ==
    /\ model \in Models
    /\ fit_array = <<>>
    /\ pc = "idle"
    /\ points = <<>>
    /\ stack = <<>>
    /\ clusters = <<>>
    /\ visit = None

\* UDBSCANx.fit(array)
UDBSCANx_fit(a) ==
    /\ model.class = "UDBSCANx"
    /\ fit_array' = a
    /\ IF ~ sorted_ascending(a)
       THEN \* AssertionError before anything is assigned
            /\ pc' = "raised"
            /\ UNCHANGED model
       ELSE /\ model' = [model EXCEPT
                           !.input_array = a,
                           !.slices = cluster(a, model.min_points,
                                              Val(model.epsilon))]
            /\ pc' = "returned"
    /\ UNCHANGED <<points, stack, clusters, visit>>

\* not_enough_points that lets an array one point short pass
not_enough_points_off_by_one(a, min_points) == Len(a) < min_points - 1

\* len(array) < self.min_points
not_enough_points(a, min_points) == Len(a) < min_points

\* UDBSCANxH.fit(array) up to the first call of _traverse_cluster_tree:
\* input_array is assigned before _run checks anything
UDBSCANxH_fit(a) ==
    /\ model.class = "UDBSCANxH"
    /\ fit_array' = a
    /\ LET k == model.min_points
           stored == [model EXCEPT !.input_array = a]
       IN  IF ~ sorted_ascending(a)
           THEN \* AssertionError in _run
                /\ model' = stored
                /\ pc' = "raised"
                /\ UNCHANGED <<points, stack, clusters>>
           ELSE IF not_enough_points(a, k)
           THEN \* not enough points to form a cluster
                /\ model' = [stored EXCEPT !.slices = <<>>]
                /\ pc' = "returned"
                /\ UNCHANGED <<points, stack, clusters>>
           ELSE IF Len(a) < k
           THEN \* core_distances: np.max of an empty array raises ValueError
                /\ model' = stored
                /\ pc' = "raised"
                /\ UNCHANGED <<points, stack, clusters>>
           ELSE IF ~ Truthy(model.max_eps) /\ fork_epsilon(a, k) = None
           THEN \* None - 1 raises TypeError
                /\ model' = stored
                /\ pc' = "raised"
                /\ points' = make_points(a, core_distances(a, k))
                /\ UNCHANGED <<stack, clusters>>
           ELSE LET max_eps == IF ~ Truthy(model.max_eps)
                               THEN Some(Val(fork_epsilon(a, k)) - 1)
                               ELSE model.max_eps
                    dist == core_distances(a, k)
                    core_dist == IF Truthy(model.min_eps)
                                 THEN floor_core_dist(Val(model.min_eps), dist)
                                 ELSE dist
                    initial_cluster_bounds == cluster(a, k, Val(max_eps))
                IN  /\ model' = [stored EXCEPT !.max_eps = max_eps]
                    /\ points' = make_points(a, core_dist)
                    /\ stack' = child_calls(points', initial_cluster_bounds,
                                            Val(max_eps))
                    /\ clusters' = <<>>
                    /\ pc' = "traverse"
    /\ visit' = None

\* one call of _traverse_cluster_tree, on the next pending cluster
\* (depth first, left to right: the order of the nested list comprehension)
traverse_cluster_tree ==
    /\ pc = "traverse"
    /\ stack # <<>>
    /\ LET local_points == Head(stack).points
           local_max_eps == Head(stack).local_max_eps
           fork == fork_epsilon(Values(local_points), model.min_points)
       IN  IF fork = None
           THEN \* the cluster has no children
                /\ clusters' = Append(clusters, bounds_of(local_points))
                /\ stack' = Tail(stack)
                /\ visit' = Some([points |-> local_points,
                                  local_max_eps |-> local_max_eps,
                                  fork_epsilon |-> None, selected |-> TRUE])
           ELSE LET local_min_eps == Val(fork)
                    support == support_parent(
                                   support_ceiling(model.method, Val(model.max_eps),
                                                   local_max_eps),
                                   local_min_eps, CoreDist(local_points))
                    support_children ==
                        support_of_children(local_min_eps, CoreDist(local_points))
                    selected == parent_selected(support, support_children)
                    child_cluster_bounds ==
                        cluster(Values(local_points), model.min_points,
                                local_min_eps - 1)
                IN  /\ visit' = Some([points |-> local_points,
                                      local_max_eps |-> local_max_eps,
                                      fork_epsilon |-> fork, selected |-> selected])
                    /\ IF selected
                       THEN /\ clusters' = Append(clusters, bounds_of(local_points))
                            /\ stack' = Tail(stack)
                       ELSE /\ stack' = child_calls(local_points, child_cluster_bounds,
                                                    local_min_eps) \o Tail(stack)
                            /\ UNCHANGED clusters
    /\ UNCHANGED <<model, fit_array, pc, points>>

\* the end of _run: the flattened clusters become model.slices
UDBSCANxH_return ==
    /\ pc = "traverse"
    /\ stack = <<>>
    /\ model' = [model EXCEPT !.slices = clusters]
    /\ pc' = "returned"
    /\ UNCHANGED <<fit_array, points, stack, clusters, visit>>

Fit ==
    /\ pc = "idle"
    /\ \E a \in Arrays : UDBSCANx_fit(a) \/ UDBSCANxH_fit(a)

\* nothing was given to the melter
MeltIdle == loci = <<>> /\ melted = None /\ remelted = None

\* no loci group exists
GroupsIdle ==
    /\ args = <<>>
    /\ bins = None
    /\ merged = None
    /\ reads = None
    /\ comparison = None
    /\ fprint = None

\* no SAM line is being parsed
SamIdle == sam = None /\ parsed = None

\* fit was not called a second time on any clusterer
RefitIdle == constructed = None /\ before = None /\ fits = 0

\* no ReadGroup exists
ReadIdle == rgroup = <<>> /\ locus = None /\ subset = None

\* no read was given to a tail-clip extractor
ClipIdle == clip = None /\ dangler = None

\* no preprocessing program exists
ProgIdle ==
    /\ program = None
    /\ dirs = {}
    /\ files = <<>>
    /\ temp_dir = None
    /\ jobs = <<>>
    /\ step = "idle"
    /\ runs = 0

OtherIdle == RefitIdle /\ ReadIdle /\ ClipIdle /\ ProgIdle

Init ==
    /\ OtherIdle
    /\ InitCluster
    /\ MeltIdle
    /\ GroupsIdle
    /\ SamIdle

Next ==
    \/ Fit /\ UNCHANGED <<meltVars, groupVars, samVars, otherVars>>
    \/ traverse_cluster_tree /\ UNCHANGED <<meltVars, groupVars, samVars, otherVars>>
    \/ UDBSCANxH_return /\ UNCHANGED <<meltVars, groupVars, samVars, otherVars>>

Spec == Init /\ [][Next]_vars

(***************************************************************************)
(* The interval melt of tectoolkit/loci.py.  loci is the interval array    *)
(* handed to _loci_melter and melted what iterating the generator gives:   *)
(* the emitted intervals, or the error it raised.                          *)
(***************************************************************************)
\* the loop of _loci_melter without the yield that follows it: the last
\* running interval is lost
RECURSIVE loci_melt_from_no_last(_, _, _, _, _)
loci_melt_from_no_last(array_starts, array_stops, i, start, stop) ==
    IF i >= Len(array_starts) THEN <<>>
    ELSE IF At(array_starts, i) <= stop
         THEN loci_melt_from_no_last(array_starts, array_stops, i + 1, start,
                                     IF At(array_stops, i) > stop
                                     THEN At(array_stops, i) ELSE stop)
         ELSE << [start |-> start, stop |-> stop] >>
              \o loci_melt_from_no_last(array_starts, array_stops, i + 1,
                                        At(array_starts, i), At(array_stops, i))

\* the loop of _loci_melter that keeps apart an interval that starts on
\* the running stop
RECURSIVE loci_melt_from_strict(_, _, _, _, _)
loci_melt_from_strict(array_starts, array_stops, i, start, stop) ==
    IF i >= Len(array_starts) THEN << [start |-> start, stop |-> stop] >>
    ELSE IF At(array_starts, i) < stop
         THEN loci_melt_from_strict(array_starts, array_stops, i + 1, start,
                                    IF At(array_stops, i) > stop
                                    THEN At(array_stops, i) ELSE stop)
         ELSE << [start |-> start, stop |-> stop] >>
              \o loci_melt_from_strict(array_starts, array_stops, i + 1,
                                       At(array_starts, i), At(array_stops, i))

\* the loop of _loci_melter from index i on, with the running interval
RECURSIVE loci_melt_from(_, _, _, _, _)
loci_melt_from(array_starts, array_stops, i, start, stop) ==
    IF i >= Len(array_starts) THEN << [start |-> start, stop |-> stop] >>
    ELSE IF At(array_starts, i) <= stop
         THEN loci_melt_from(array_starts, array_stops, i + 1, start,
                             IF At(array_stops, i) > stop
                             THEN At(array_stops, i) ELSE stop)
         ELSE << [start |-> start, stop |-> stop] >>
              \o loci_melt_from(array_starts, array_stops, i + 1,
                                At(array_starts, i), At(array_stops, i))

\* _loci_melter(array), consumed by np.fromiter
loci_melter(intervals) ==
    LET array_starts == NpSort([i \in 1..Len(intervals) |-> intervals[i].start])
        array_stops == NpSort([i \in 1..Len(intervals) |-> intervals[i].stop])
    IN  IF Len(array_starts) = 0
        THEN \* array_starts[0] on an empty array
             [error |-> "IndexError", intervals |-> <<>>]
        ELSE [error |-> "",
              intervals |-> loci_melt_from(array_starts, array_stops, 1,
                                           At(array_starts, 0), At(array_stops, 0))]

\* the closed intervals with start <= stop over the coordinates
Intervals == {iv \in [start : 0..MaxVal, stop : 0..MaxVal] : iv.start <= iv.stop}

LociArrays == UNION {[1..n -> Intervals] : n \in 0..MaxLoci}

\* no clusterer is fitting
ClusterIdle ==
    /\ model = NewUDBSCANx(2, 0)
    /\ fit_array = <<>>
    /\ pc = "idle"
    /\ points = <<>>
    /\ stack = <<>>
    /\ clusters = <<>>
    /\ visit = None

InitMelt ==
    /\ OtherIdle
    /\ ClusterIdle
    /\ loci \in LociArrays
    /\ melted = None
    /\ remelted = None
    /\ GroupsIdle
    /\ SamIdle

\* np.fromiter(_loci_melter(loci), dtype)
Melt ==
    /\ melted = None
    /\ melted' = Some(loci_melter(loci))
    /\ UNCHANGED <<otherVars, clusterVars, loci, remelted, groupVars, samVars>>

\* np.fromiter(_loci_melter(melted), dtype): the melter applied to the
\* intervals a first melt returned
Remelt ==
    /\ melted # None
    /\ Val(melted).error = ""
    /\ remelted = None
    /\ remelted' = Some(loci_melter(Val(melted).intervals))
    /\ UNCHANGED <<otherVars, clusterVars, loci, melted, groupVars, samVars>>

NextMelt == Melt \/ Remelt

SpecMelt == InitMelt /\ [][NextMelt]_vars

(***************************************************************************)
(* The loci groups of tectoolkit/loci.py.  A _Loci object is its concrete  *)
(* type and its _dict, a function from group keys to interval sequences.   *)
(* A key is the tuple (reference, strand, category, source); the keys of   *)
(* ComparativeBins are (reference, strand, category).  The result of an    *)
(* operation carries the error it raised, "" when it returned.             *)
(***************************************************************************)
\* _Loci.__init__ followed by _update_dict(dictionary)
NewLoci(type, dictionary) == [error |-> "", type |-> type, dict |-> dictionary]

\* an exception that left the operation without a result
Raised(error) == [error |-> error, type |-> "", dict |-> <<>>]

\* _Loci.groups()
groups_of(obj) == DOMAIN obj.dict

\* group[0:3]
group_projection(group) == PySlice(group, 0, 3)

\* dictionary[group[0:3]] = loci, dropping what the group held
union_overwrite(existing, extra) == extra

\* np.append(dictionary[group[0:3]], loci)
union_append(existing, extra) == existing \o extra

\* for group, loci in arg.items(): the items of one argument appended to
\* the dictionary of from_union, in the iteration order of the dict
RECURSIVE union_items(_, _, _)
union_items(dictionary, d, keys) ==
    IF keys = {} THEN dictionary
    ELSE LET group == CHOOSE g \in keys : TRUE
         IN  union_items([dictionary EXCEPT ![group_projection(group)] =
                              union_append(@, d[group])],
                         d, keys \ {group})

\* for arg in args: from argument i on
RECURSIVE union_args(_, _, _)
union_args(dictionary, a, i) ==
    IF i > Len(a) THEN dictionary
    ELSE union_args(union_items(dictionary, a[i].dict, groups_of(a[i])), a, i + 1)

\* ComparativeBins.from_union(*args)
from_union(a) ==
    LET groups == {group_projection(group) :
                      group \in UNION {groups_of(a[i]) : i \in 1..Len(a)}}
        dictionary == union_args([group \in groups |-> <<>>], a, 1)
        melts == [group \in groups |-> loci_melter(dictionary[group])]
    IN  IF \E group \in groups : melts[group].error # ""
        THEN Raised("IndexError")
        ELSE NewLoci("ComparativeBins", [group \in groups |-> melts[group].intervals])

\* dict.update in which the keys already present keep their value
dict_update_keep(d, other) ==
    [k \in DOMAIN d \cup DOMAIN other |-> IF k \in DOMAIN d THEN d[k] ELSE other[k]]

\* _Loci._update_dict: self._dict.update(dictionary)
dict_update(d, other) ==
    [k \in DOMAIN d \cup DOMAIN other |-> IF k \in DOMAIN other THEN other[k] ELSE d[k]]

\* for arg in args: merged._update_dict(arg._dict), from argument i on
RECURSIVE merge_from(_, _, _)
merge_from(d, a, i) ==
    IF i > Len(a) THEN d ELSE merge_from(dict_update(d, a[i].dict), a, i + 1)

\* len(set(map(type, args))) == 1
same_type(a) == Cardinality({a[i].type : i \in 1..Len(a)}) = 1

\* merge(*args)
merge(a) ==
    IF ~ same_type(a) THEN Raised("AssertionError")
    ELSE NewLoci(a[1].type, merge_from(<<>>, a, 1))

Strands == {"+", "-"}
Sources == {"a", "b"}

\* the key (reference, strand, category, source)
Key(strand, source) == <<"chr1", strand, "te", source>>

\* the closed intervals inside lo..MaxCoord
IntervalsFrom(lo) ==
    {iv \in [start : lo..MaxCoord, stop : lo..MaxCoord] : iv.start <= iv.stop}

\* the sequences of n intervals from lo on, ascending and disjoint, as
\* cluster_extremities gives them
RECURSIVE DisjointFrom(_, _)
DisjointFrom(n, lo) ==
    IF n = 0 THEN {<<>>}
    ELSE UNION {{<<iv>> \o rest : rest \in DisjointFrom(n - 1, iv.stop + 1)} :
                   iv \in IntervalsFrom(lo)}

\* what one group of a FingerPrint can hold
DisjointLoci == UNION {DisjointFrom(n, 0) : n \in 0..MaxBins}

\* a group without a cluster, or with one cluster at the origin
OriginLoci == {l \in DisjointLoci : \A i \in 1..Len(l) : l[i].stop = 0}

\* the dictionaries of one sample: one group on either strand, or one on
\* each strand
FingerPrintDicts(source) ==
    UNION {{[k \in {Key(s, source)} |-> l] : s \in Strands} : l \in DisjointLoci}
    \cup {[k \in {Key("+", source), Key("-", source)} |->
              IF k[2] = "+" THEN l ELSE o] : l \in DisjointLoci, o \in OriginLoci}

\* the FingerPrint objects of one sample
FingerPrints(source) == {NewLoci("FingerPrint", d) : d \in FingerPrintDicts(source)}

\* the ComparativeBins that from_union returns for one FingerPrint
BinsOfOne ==
    {b \in {from_union(<<f>>) : f \in FingerPrints("a")} : b.error = ""}

\* the argument lists of from_union: the FingerPrints of two samples, or
\* two FingerPrints of one sample
UnionArgLists ==
    {<<f, g>> : f \in FingerPrints("a"),
                g \in UNION {FingerPrints(s) : s \in Sources}}

\* the argument lists of merge: those of from_union, and a FingerPrint
\* with a ComparativeBins
MergeArgLists ==
    UnionArgLists \cup {<<f, g>> : f \in FingerPrints("a"), g \in BinsOfOne}

\* the arguments in the other order
Swapped(a) == [i \in 1..Len(a) |-> a[Len(a) + 1 - i]]

\* bins and merged hold the calls made so far: the result of every
\* argument list from_union / merge was called with
InitUnion ==
    /\ OtherIdle
    /\ ClusterIdle
    /\ MeltIdle
    /\ SamIdle
    /\ args \in UnionArgLists
    /\ bins = <<>>
    /\ merged = <<>>
    /\ reads = None
    /\ comparison = None
    /\ fprint = None

\* ComparativeBins.from_union(a, b) or ComparativeBins.from_union(b, a)
FromUnion ==
    /\ \E a \in {args, Swapped(args)} :
          /\ a \notin DOMAIN bins
          /\ bins' = bins @@ (a :> from_union(a))
    /\ UNCHANGED <<otherVars, clusterVars, meltVars, samVars, args, merged, reads,
                   comparison, fprint>>

NextUnion == FromUnion

SpecUnion == InitUnion /\ [][NextUnion]_vars

InitMerge ==
    /\ OtherIdle
    /\ ClusterIdle
    /\ MeltIdle
    /\ SamIdle
    /\ args \in MergeArgLists
    /\ bins = <<>>
    /\ merged = <<>>
    /\ reads = None
    /\ comparison = None
    /\ fprint = None

\* merge(a, b) or merge(b, a)
Merge ==
    /\ \E a \in {args, Swapped(args)} :
          /\ a \notin DOMAIN merged
          /\ merged' = merged @@ (a :> merge(a))
    /\ UNCHANGED <<otherVars, clusterVars, meltVars, samVars, args, bins, reads,
                   comparison, fprint>>

NextMerge == Merge

SpecMerge == InitMerge /\ [][NextMerge]_vars

(***************************************************************************)
(* ReadLoci and the comparison of reads with bins.  A read is the record   *)
(* (start, stop, name); the name is kept as the ordinal of the read in     *)
(* its group when the group was read from the BAM file.                    *)
(***************************************************************************)
\* ReadLoci.tips(): the stop column of the groups on the '+' strand, the
\* start column of the others
tips(obj) ==
    [group \in groups_of(obj) |->
        IF At(group, 1) = "+"
        THEN [i \in 1..Len(obj.dict[group]) |-> obj.dict[group][i].stop]
        ELSE [i \in 1..Len(obj.dict[group]) |-> obj.dict[group][i].start]]

\* the sample names in the order numpy sorts strings
SourceOrder == <<"a", "b">>
StrRank(s) == CHOOSE i \in 1..Len(SourceOrder) : SourceOrder[i] = s

\* np.array(list(names)) followed by sort()
RECURSIVE sort_strings(_)
sort_strings(names) ==
    IF names = {} THEN <<>>
    ELSE LET first == CHOOSE x \in names :
                          \A y \in names : StrRank(x) <= StrRank(y)
         IN  <<first>> \o sort_strings(names \ {first})

\* the count of the tips in a bin that leaves out a tip on the stop
count_tips_half_open(local_tips, start, stop) ==
    NpSum([i \in 1..Len(local_tips) |->
              IF local_tips[i] >= start /\ local_tips[i] < stop THEN 1 ELSE 0])

\* np.sum(np.logical_and(tips >= start, tips <= stop))
count_tips(local_tips, start, stop) ==
    NpSum([i \in 1..Len(local_tips) |->
              IF local_tips[i] >= start /\ local_tips[i] <= stop THEN 1 ELSE 0])

\* ComparativeBins.compare(reads), self being b
compare(b, r) ==
    LET samples == sort_strings({At(group, 3) : group \in groups_of(r)})
        tips_dict == tips(r)
    IN  IF \E group \in groups_of(b), i \in 1..Len(samples) :
               (group \o <<samples[i]>>) \notin DOMAIN tips_dict
        THEN \* tips_dict[(*group, sample)]
             Raised("KeyError")
        ELSE NewLoci("Comparison",
                 [group \in groups_of(b) |->
                     [n \in 1..Len(b.dict[group]) |->
                         [start |-> b.dict[group][n].start,
                          stop |-> b.dict[group][n].stop,
                          samples |-> samples,
                          counts |->
                              [i \in 1..Len(samples) |->
                                  count_tips(tips_dict[group \o <<samples[i]>>],
                                             b.dict[group][n].start,
                                             b.dict[group][n].stop)]]]])

IsSorted(s) == \A i \in 1..(Len(s) - 1) : s[i] <= s[i + 1]

\* the reads that start at the given positions, each two bases long
ReadsAt(starts) ==
    [i \in 1..Len(starts) |->
        [start |-> starts[i], stop |-> starts[i] + 1, name |-> i]]

\* the sequences of up to n start positions, in any order
StartSeqs(n) == UNION {[1..j -> 0..MaxCoord] : j \in 0..n}

\* those in ascending order
AscendingStartSeqs(n) == {s \in StartSeqs(n) : IsSorted(s)}

\* a dictionary with the key, or without it when the value is None
Entry(key, value) == IF value = None THEN <<>> ELSE key :> Val(value)

\* the ReadLoci that compare is given: reads of sample a on the '+'
\* strand, possibly a group of sample b there (empty or of one read),
\* possibly a '-' group of sample a with a read at the origin
CompareReads ==
    {NewLoci("ReadLoci",
             (Key("+", "a") :> ReadsAt(main))
                 @@ Entry(Key("+", "b"), other) @@ Entry(Key("-", "a"), minus)) :
        main \in AscendingStartSeqs(MaxReads),
        other \in {None} \cup {Some(ReadsAt(s)) : s \in AscendingStartSeqs(1)},
        minus \in {None, Some(ReadsAt(<<0>>))}}

\* the FingerPrints the bins are made of: one of sample a with a '+' group
\* and possibly a cluster at the origin of the '-' strand, and one of
\* sample b with at most one cluster on the '+' strand
CompareArgLists ==
    {<<f, g>> :
        f \in {x \in FingerPrints("a") :
                  /\ Key("+", "a") \in groups_of(x)
                  /\ Key("-", "a") \in groups_of(x) =>
                         Len(x.dict[Key("-", "a")]) = 1},
        g \in {x \in FingerPrints("b") :
                  /\ groups_of(x) = {Key("+", "b")}
                  /\ Len(x.dict[Key("+", "b")]) <= 1}}

\* two samples with tips 105, 150, 250 and 199, 200, 201 on the '+' strand
ScenarioReads ==
    NewLoci("ReadLoci",
            (Key("+", "a") :> << [start |-> 100, stop |-> 105, name |-> 1],
                                 [start |-> 140, stop |-> 150, name |-> 2],
                                 [start |-> 240, stop |-> 250, name |-> 3] >>)
            @@ (Key("+", "b") :> << [start |-> 190, stop |-> 199, name |-> 1],
                                    [start |-> 190, stop |-> 200, name |-> 2],
                                    [start |-> 190, stop |-> 201, name |-> 3] >>))

\* a FingerPrint with the single interval (100, 200)
ScenarioFingerPrint ==
    NewLoci("FingerPrint", Key("+", "a") :> << [start |-> 100, stop |-> 200] >>)

InitCompare ==
    /\ OtherIdle
    /\ ClusterIdle
    /\ MeltIdle
    /\ SamIdle
    /\ \/ args \in CompareArgLists /\ reads \in CompareReads
       \/ args = <<ScenarioFingerPrint>> /\ reads = ScenarioReads
    /\ bins = <<>>
    /\ merged = <<>>
    /\ comparison = None
    /\ fprint = None

\* bins = ComparativeBins.from_union(*args)
BuildBins ==
    /\ bins = <<>>
    /\ bins' = (args :> from_union(args))
    /\ UNCHANGED <<otherVars, clusterVars, meltVars, samVars, args, merged, reads,
                   comparison, fprint>>

\* comparison = bins.compare(reads), on the bins from_union returned
Compare ==
    /\ comparison = None
    /\ args \in DOMAIN bins
    /\ bins[args].error = ""
    /\ comparison' = Some(compare(bins[args], reads))
    /\ UNCHANGED <<otherVars, clusterVars, meltVars, samVars, args, bins, merged, reads,
                   fprint>>

NextCompare == BuildBins \/ Compare

SpecCompare == InitCompare /\ [][NextCompare]_vars

(***************************************************************************)
(* ReadLoci.fingerprint.  The clusterers it fits are whole calls here:     *)
(* the traversal of the hierarchy as a recursive function of the cluster.  *)
(***************************************************************************)
\* _traverse_cluster_tree(local_points, local_max_eps) of the model m,
\* flattened: the bounds of the clusters it selects
RECURSIVE traverse(_, _, _)
RECURSIVE traverse_all(_, _)
traverse(m, local_points, local_max_eps) ==
    LET fork == fork_epsilon(Values(local_points), m.min_points)
    IN  IF fork = None THEN << bounds_of(local_points) >>
        ELSE LET local_min_eps == Val(fork)
                 support == support_parent(
                                support_ceiling(m.method, Val(m.max_eps),
                                                local_max_eps),
                                local_min_eps, CoreDist(local_points))
                 support_children ==
                     support_of_children(local_min_eps, CoreDist(local_points))
                 child_cluster_bounds ==
                     cluster(Values(local_points), m.min_points, local_min_eps - 1)
             IN  IF parent_selected(support, support_children)
                 THEN << bounds_of(local_points) >>
                 ELSE traverse_all(m, child_calls(local_points, child_cluster_bounds,
                                                  local_min_eps))

\* the calls of one list comprehension, left to right
traverse_all(m, calls) ==
    IF calls = <<>> THEN <<>>
    ELSE traverse(m, Head(calls).points, Head(calls).local_max_eps)
             \o traverse_all(m, Tail(calls))

\* UDBSCANxH.fit(a) on the model m: the error raised, or the slices
run(m, a) ==
    LET k == m.min_points
    IN  IF ~ sorted_ascending(a) THEN [error |-> "AssertionError", slices |-> <<>>]
        ELSE IF not_enough_points(a, k) THEN [error |-> "", slices |-> <<>>]
        ELSE IF ~ Truthy(m.max_eps) /\ fork_epsilon(a, k) = None
        THEN [error |-> "TypeError", slices |-> <<>>]
        ELSE LET max_eps == IF ~ Truthy(m.max_eps)
                            THEN Some(Val(fork_epsilon(a, k)) - 1)
                            ELSE m.max_eps
                 dist == core_distances(a, k)
                 core_dist == IF Truthy(m.min_eps)
                              THEN floor_core_dist(Val(m.min_eps), dist)
                              ELSE dist
                 initial_cluster_bounds == cluster(a, k, Val(max_eps))
             IN  [error |-> "",
                  slices |-> traverse_all([m EXCEPT !.max_eps = max_eps],
                                 child_calls(make_points(a, core_dist),
                                             initial_cluster_bounds, Val(max_eps)))]

\* tips.sort() on the view loci["stop"] or loci["start"] of a group: the
\* column of the stored records is sorted, the other columns stay
sort_tips(group_reads, strand) ==
    LET column == NpSort([i \in 1..Len(group_reads) |->
                             IF strand = "+" THEN group_reads[i].stop
                             ELSE group_reads[i].start])
    IN  [i \in 1..Len(group_reads) |->
            IF strand = "+" THEN [group_reads[i] EXCEPT !.stop = column[i]]
            ELSE [group_reads[i] EXCEPT !.start = column[i]]]

\* model = HUDC(min_reads, max_eps=eps, min_eps=min_eps) or
\* UDC(min_reads, eps), then model.fit(tips)
fit_tips(local_tips, call) ==
    IF call.hierarchical
    THEN run(NewUDBSCANxH(call.min_reads, Some(call.eps), Some(call.min_eps),
                          "conservative"), local_tips)
    ELSE IF ~ sorted_ascending(local_tips)
         THEN [error |-> "AssertionError", slices |-> <<>>]
         ELSE [error |-> "", slices |-> cluster(local_tips, call.min_reads, call.eps)]

\* np.fromiter(model.cluster_extremities(), dtype=FingerPrint._DTYPE_LOCI)
positions_of(local_tips, slices) ==
    LET extremities == cluster_extremities([input_array |-> local_tips,
                                            slices |-> slices])
    IN  [i \in 1..Len(extremities) |->
            [start |-> extremities[i][1], stop |-> extremities[i][2]]]

\* the loop of fingerprint over the groups still to visit: the ReadLoci as
\* the loop leaves it and the FingerPrint returned (or the error raised)
RECURSIVE fingerprint_from(_, _, _, _)
fingerprint_from(r, dictionary, keys, call) ==
    IF keys = {} THEN [reads |-> r, result |-> NewLoci("FingerPrint", dictionary)]
    ELSE LET group == CHOOSE g \in keys : TRUE
             sorted == [r EXCEPT !.dict[group] = sort_tips(@, At(group, 1))]
             local_tips == tips(sorted)[group]
             fit == fit_tips(local_tips, call)
         IN  IF fit.error # ""
             THEN [reads |-> sorted, result |-> Raised(fit.error)]
             ELSE fingerprint_from(sorted,
                                   dictionary @@ (group :> positions_of(local_tips,
                                                                        fit.slices)),
                                   keys \ {group}, call)

\* ReadLoci.fingerprint(min_reads, eps, min_eps, hierarchical)
fingerprint(r, call) == fingerprint_from(r, <<>>, groups_of(r), call)

\* the reads of a group as the BAM file gives them: of any length inside
\* the coordinates, in any order of their tips
ReadSeqs ==
    UNION {{[i \in 1..n |-> [start |-> s[i].start, stop |-> s[i].stop, name |-> i]] :
               s \in [1..n -> IntervalsFrom(0)]} : n \in 0..MaxReads}

\* the ReadLoci that are fingerprinted: a '+' group and possibly a '-'
\* group of two reads stored in descending order
FingerprintReads ==
    {NewLoci("ReadLoci",
             (Key("+", "a") :> main) @@ Entry(Key("-", "a"), minus)) :
        main \in ReadSeqs, minus \in {None, Some(ReadsAt(<<1, 0>>))}}

\* the arguments of fingerprint; min_eps keeps its default
FingerprintCalls ==
    [min_reads : 2..MaxPoints, eps : 0..MaxEps, min_eps : {0},
     hierarchical : BOOLEAN]

\* args holds the arguments of the call of fingerprint
InitFingerprint ==
    /\ OtherIdle
    /\ ClusterIdle
    /\ MeltIdle
    /\ SamIdle
    /\ reads \in FingerprintReads
    /\ args \in {<<call>> : call \in FingerprintCalls}
    /\ bins = <<>>
    /\ merged = <<>>
    /\ comparison = None
    /\ fprint = None

\* fprint = reads.fingerprint(min_reads, eps, min_eps, hierarchical)
Fingerprint ==
    /\ fprint = None
    /\ \E done \in {fingerprint(reads, args[1])} :
          /\ fprint' = Some(done.result)
          /\ reads' = done.reads
    /\ UNCHANGED <<otherVars, clusterVars, meltVars, samVars, args, bins, merged, comparison>>

NextFingerprint == Fingerprint

SpecFingerprint == InitFingerprint /\ [][NextFingerprint]_vars

(***************************************************************************)
(* The SAM line parsers: ReadGroup._parse_sam_strings of tectoolkit/reads  *)
(* and of tectoolkit/classes, and parse_sam_strings of tectoolkit/libtec.  *)
(* A SAM line is kept as its tab-separated fields, the numeric ones as the *)
(* integers int() reads from them and SEQ as its sequence of bases.        *)
(***************************************************************************)
\* bit n of a SAM flag
FlagBit(flag, n) == (flag \div (2 ^ n)) % 2 = 1

\* bam_io.flag_orientation(flag): the strand from flag bit 0x10
flag_orientation(flag) == IF FlagBit(flag, 4) THEN Some("-") ELSE Some("+")

\* classes.ReadGroup._flag_orientation(flag)
classes_flag_orientation(flag) ==
    IF FlagBit(flag, 2) THEN None          \* read is unmapped
    ELSE IF FlagBit(flag, 4) THEN Some("-")
    ELSE Some("+")

\* the tuple a ReadGroup parser returns for the strand it settled on, None
\* when that strand is neither '+' nor '-'
read_tuple(attr, strand) ==
    LET name == At(attr, 0)
        start == At(attr, 3)
        length == Len(At(attr, 9))
        end == start + length - 1
    IN  IF strand = Some("+")
        THEN Some([tip |-> end, tail |-> start, strand |-> "+", name |-> name])
        ELSE IF strand = Some("-")
        THEN Some([tip |-> start, tail |-> end, strand |-> "-", name |-> name])
        ELSE None

\* reads.ReadGroup._parse_sam_strings._parse_sam_string(string, strand)
reads_parse_sam_string(attr, strand) ==
    read_tuple(attr, IF strand = None
                     THEN flag_orientation(At(attr, 1)) ELSE strand)

\* classes.ReadGroup._parse_sam_strings._parse_sam_string(string, strand)
classes_parse_sam_string(attr, strand) ==
    read_tuple(attr, IF strand = None
                     THEN classes_flag_orientation(At(attr, 1)) ELSE strand)

\* libtec.parse_sam_strings.parse_sam_string(sam_string, strand)
libtec_parse_sam_string(attr, strand) ==
    LET start == At(attr, 3)
        length == Len(At(attr, 9))
        end == start + length
    IN  IF strand = Some("+")
        THEN Some([tip |-> end, tail |-> start, length |-> length, reverse |-> TRUE])
        ELSE IF strand = Some("-")
        THEN Some([tip |-> start, tail |-> end, length |-> length, reverse |-> FALSE])
        ELSE None

\* the fields of a SAM line: QNAME FLAG RNAME POS MAPQ CIGAR RNEXT PNEXT
\* TLEN SEQ QUAL
SamLine(name, flag, pos, seq) ==
    <<name, flag, "chr1", pos, 60, "66M19S", "*", 0, 0, seq, seq>>

\* forward and reverse reads, single and paired, and an unmapped read
SamFlags == {0, 16, 4, 99, 147}

SamLines ==
    {SamLine("Gypsy27_a", flag, pos, [i \in 1..n |-> "A"]) :
        flag \in SamFlags, pos \in 1..MaxPos, n \in 1..MaxSeqLen}

\* the calls: the parser, the line and the strand argument, which the
\* ReadGroup parsers take as '+', '-' or None and libtec as '+' or '-'
SamCalls ==
    [parser : {"reads", "classes"}, attr : SamLines,
     strand : {None, Some("+"), Some("-")}]
    \cup [parser : {"libtec"}, attr : SamLines, strand : {Some("+"), Some("-")}]

InitSam ==
    /\ OtherIdle
    /\ ClusterIdle
    /\ MeltIdle
    /\ GroupsIdle
    /\ sam \in SamCalls
    /\ parsed = None

\* one line parsed by the parser of the call
ParseSam ==
    /\ parsed = None
    /\ parsed' = Some(IF sam.parser = "reads"
                      THEN reads_parse_sam_string(sam.attr, sam.strand)
                      ELSE IF sam.parser = "classes"
                      THEN classes_parse_sam_string(sam.attr, sam.strand)
                      ELSE libtec_parse_sam_string(sam.attr, sam.strand))
    /\ UNCHANGED <<otherVars, clusterVars, meltVars, groupVars, sam>>

NextSam == ParseSam

SpecSam == InitSam /\ [][NextSam]_vars

(***************************************************************************)
(* ReadGroup of tectoolkit/reads.py.  A group is the sequence of its read  *)
(* records (tip, tail, strand, name), in the order of the wrapped array.   *)
(***************************************************************************)
\* ReadGroup.__init__(reads): np.array(reads, dtype=DTYPE_READ, copy=True),
\* a new array holding the records in the order given
NewReadGroup(group_reads) ==
    [i \in 1..Len(group_reads) |->
        [tip |-> group_reads[i].tip, tail |-> group_reads[i].tail,
         strand |-> group_reads[i].strand, name |-> group_reads[i].name]]

\* the bounds test that leaves out a read lying on the lower bound
within_above(value, start, stop) == value > start /\ value <= stop

\* np.logical_and(reads[end] >= start, reads[end] <= stop), for one read
within(value, start, stop) == value >= start /\ value <= stop

\* reads[np.logical_and(reads[field] >= start, reads[field] <= stop)]
mask_field(group_reads, field, start, stop) ==
    NpMask(group_reads,
           [i \in 1..Len(group_reads) |->
               within(IF field = "tip" THEN group_reads[i].tip
                      ELSE group_reads[i].tail, start, stop)])

\* ReadGroup.subset_by_locus(start, stop, margin, end): the error raised, or
\* the reads of the group returned
subset_by_locus(group_reads, start, stop, margin, end) ==
    IF end \notin {"tip", "tail", "both"}
    THEN [error |-> "AssertionError", reads |-> <<>>]
    ELSE LET lo == start - margin
             hi == stop + margin
         IN  [error |-> "",
              reads |-> IF end = "both"
                        THEN NewReadGroup(mask_field(mask_field(group_reads, "tip",
                                                                lo, hi),
                                                     "tail", lo, hi))
                        ELSE NewReadGroup(mask_field(group_reads, end, lo, hi))]

\* the reads a group may hold: both ends inside the coordinates, the
\* strand the one the ends imply, the name the place in the file
ReadRecords(name) ==
    {[tip |-> tip, tail |-> tail,
      strand |-> IF tip >= tail THEN "+" ELSE "-", name |-> name] :
        tip \in 0..MaxCoord, tail \in 0..MaxCoord}

ReadGroups ==
    UNION {{g \in [1..n -> UNION {ReadRecords(i) : i \in 1..n}] :
               \A i \in 1..n : g[i].name = i} : n \in 0..MaxReads}

\* the arguments of subset_by_locus; "name" is a field that is no end
LocusCalls ==
    [start : 0..MaxCoord, stop : 0..MaxCoord, margin : 0..1,
     end : {"tip", "tail", "both", "name"}]

InitSubset ==
    /\ ClusterIdle
    /\ MeltIdle
    /\ GroupsIdle
    /\ SamIdle
    /\ RefitIdle
    /\ ClipIdle
    /\ ProgIdle
    /\ rgroup \in ReadGroups
    /\ locus \in {Some(call) : call \in LocusCalls}
    /\ subset = None

\* subset = rgroup.subset_by_locus(start, stop, margin, end)
SubsetByLocus ==
    /\ subset = None
    /\ subset' = Some(subset_by_locus(rgroup, Val(locus).start, Val(locus).stop,
                                      Val(locus).margin, Val(locus).end))
    /\ UNCHANGED <<clusterVars, meltVars, groupVars, samVars, refitVars, clipVars,
                   progVars, rgroup, locus>>

NextSubset == SubsetByLocus

SpecSubset == InitSubset /\ [][NextSubset]_vars

(***************************************************************************)
(* The tail-clip extractors of tefingerprint/preprocess.py.  A read of the *)
(* repeat-element BAM is kept as its name, its reference, its CIGAR as the *)
(* sequence of (length, operation) pairs the string spells, SEQ as its     *)
(* sequence of bases and QUAL as its sequence of quality characters.       *)
(***************************************************************************)
\* str.upper() of one base
upper(base) ==
    CASE base = "a" -> "A" [] base = "c" -> "C" [] base = "g" -> "G"
      [] base = "t" -> "T" [] base = "n" -> "N" [] OTHER -> base

\* complement.get(base, base)
complement(base) ==
    CASE base = "A" -> "T" [] base = "C" -> "G" [] base = "G" -> "C"
      [] base = "T" -> "A" [] base = "N" -> "N" [] OTHER -> base

\* string[::-1]
reversed(string) == [i \in 1..Len(string) |-> string[Len(string) + 1 - i]]

\* reverse_complement(sequence)
reverse_complement(sequence) ==
    LET upper_case == [i \in 1..Len(sequence) |-> upper(sequence[i])]
        backwards == reversed(upper_case)
    IN  [i \in 1..Len(backwards) |-> complement(backwards[i])]

\* re.findall(r"[0-9]+[S]$", cigar), then int(clip[0].strip('S')): the
\* length of the soft clip the CIGAR ends in, None when it ends otherwise
trailing_clip(cigar) ==
    IF cigar # <<>> /\ cigar[Len(cigar)].op = "S"
    THEN Some(cigar[Len(cigar)].length)
    ELSE None

\* extract_reverse_soft_clips(bam, min_length), for one line of the view:
\* the reads it yields
extract_reverse_soft_clips(read, min_length) ==
    LET found == trailing_clip(read.CIGAR)
    IN  IF found = None THEN <<>>
        ELSE LET c == Val(found)
             IN  IF c >= min_length
                 THEN << [read EXCEPT
                            !.SEQ = reverse_complement(PyFrom(read.SEQ, 0 - c)),
                            !.QUAL = reversed(PyFrom(read.QUAL, 0 - c))] >>
                 ELSE <<>>

\* ProcessReverseTailClips._parse_reads(reads), for one read of the subset
\* BAM: the dicts it yields
ProcessReverseTailClips_parse_reads(read, soft_clip_min_length) ==
    LET found == trailing_clip(read.CIGAR)
    IN  IF found = None THEN <<>>
        ELSE LET c == Val(found)
             IN  IF c >= soft_clip_min_length
                 THEN << [name |-> read.QNAME,
                          element |-> read.RNAME,
                          sequence |-> reverse_complement(PySlice(read.SEQ, 0, c + 1)),
                          quality |-> reversed(PySlice(read.QUAL, 0, c + 1))] >>
                 ELSE <<>>

\* the CIGAR of a read of length n: a leading clip, the match and a trailing
\* clip, every operation of length zero left out
Cigars(n) ==
    {SelectSeq(<< [length |-> lead, op |-> "S"],
                  [length |-> n - lead - trail, op |-> "M"],
                  [length |-> trail, op |-> "S"] >>,
               LAMBDA o : o.length > 0) :
        lead \in 0..n, trail \in 0..n} \ {<<>>}

\* reverse reads of proper pairs (flag 147): every sequence of up to
\* MaxBases bases, the quality of each base the one of its place
ClippedReads ==
    UNION {{[QNAME |-> "read001", FLAG |-> 147, RNAME |-> "MULE_MUDRAVI2",
             CIGAR |-> cigar, SEQ |-> seq, QUAL |-> [i \in 1..n |-> i]] :
               seq \in [1..n -> {"A", "C", "g"}],
               cigar \in {c \in Cigars(n) :
                             \E i \in 1..Len(c) : c[i].op = "M"}} :
           n \in 1..MaxBases}

\* the calls: the function or the job of the pipeline, the read and the
\* minimum tail length
ClipCalls ==
    [extractor : {"extract_reverse_soft_clips", "ProcessReverseTailClips"},
     read : ClippedReads, min_length : 1..MaxBases]

InitClip ==
    /\ ClusterIdle
    /\ MeltIdle
    /\ GroupsIdle
    /\ SamIdle
    /\ RefitIdle
    /\ ReadIdle
    /\ ProgIdle
    /\ clip \in {Some(call) : call \in ClipCalls}
    /\ dangler = None

\* the read goes through the extractor of the call
ExtractClip ==
    /\ dangler = None
    /\ dangler' = Some(IF Val(clip).extractor = "extract_reverse_soft_clips"
                       THEN extract_reverse_soft_clips(Val(clip).read,
                                                       Val(clip).min_length)
                       ELSE ProcessReverseTailClips_parse_reads(Val(clip).read,
                                                                Val(clip).min_length))
    /\ UNCHANGED <<clusterVars, meltVars, groupVars, samVars, refitVars, readVars,
                   progVars, clip>>

NextClip == ExtractClip

SpecClip == InitClip /\ [][NextClip]_vars

(***************************************************************************)
(* The preprocessing program of tefingerprint/preprocess.py.  A directory  *)
(* is a name, a file a (directory, file name) pair; files maps the files   *)
(* that exist to their contents: a BAM file to the sequence of its reads,  *)
(* a FASTQ file to the sequence of its records.  samtools and bwa are      *)
(* programs outside the repository: a view keeps the reads its flag        *)
(* filters select, an alignment gives one read per FASTQ record, and any   *)
(* of their calls may fail.                                                *)
(***************************************************************************)
\* os.path.join(directory, name)
Path(directory, name) == <<directory, name>>

\* the file of the option input_bam
InputBam == Path(<<"data", 0>>, <<"", "danglers.bam">>)

\* PreProcessProgram.__init__: threads is kept as str(threads), here the
\* number the string spells
NewPreProcessProgram(include_tails, tail_minimum_length, mate_element_tag, local_temp_dir, threads) ==
    [input_bam |-> InputBam,
     reference_fasta |-> "reference.fasta",
     output_bam |-> Path(<<"data", 0>>, <<"", "output.bam">>),
     include_tails |-> include_tails,
     tail_minimum_length |-> tail_minimum_length,
     mate_element_tag |-> mate_element_tag,
     TEMP_DIR |-> local_temp_dir,
     threads |-> threads]

\* the four job classes: TEMP_FILE_PREFIX and EXTRACT_DANGLER_FLAGS, the
\* bits of the -f options (all required) and of the -F options (none
\* allowed): 2304 is bits 8 and 11, 16 bit 4, 8 bit 3, 4 bit 2, 2 bit 1
ProcessForwardDanglers ==
    [class |-> "ProcessForwardDanglers", prefix |-> "forward_",
     required |-> {2}, excluded |-> {8, 11, 4, 3}]
ProcessReverseDanglers ==
    [class |-> "ProcessReverseDanglers", prefix |-> "reverse_",
     required |-> {4, 2}, excluded |-> {8, 11, 3}]
ProcessForwardTailClips ==
    [class |-> "ProcessForwardTailClips", prefix |-> "forward_tail_clips_",
     required |-> {1}, excluded |-> {8, 11, 4, 2, 3}]
ProcessReverseTailClips ==
    [class |-> "ProcessReverseTailClips", prefix |-> "reverse_tail_clips_",
     required |-> {1, 4}, excluded |-> {8, 11, 2, 3}]

\* _ProcessDanglers.__init__(input_bam, reference, directory,
\* remove_files=True, bwa_threads=1, element_tag='ME',
\* soft_clip_min_length=38)
NewProcessDanglers(job, input_bam, reference, directory, bwa_threads, element_tag, soft_clip_min_length) ==
    [class |-> job.class,
     required |-> job.required,
     excluded |-> job.excluded,
     input_bam |-> input_bam,
     reference |-> reference,
     directory |-> directory,
     temp_dangler_bam |-> Path(directory, <<job.prefix, "0_danglers.bam">>),
     temp_fastq |-> Path(directory, <<job.prefix, "1_danglers.fastq">>),
     temp_mapped_danglers_bam |-> Path(directory, <<job.prefix, "2_mapped_danglers.bam">>),
     temp_tagged_mapped_danglers_bam |->
         Path(directory, <<job.prefix, "3_tagged_mapped_danglers.bam">>),
     bwa_threads |-> bwa_threads,
     element_tag |-> element_tag,
     soft_clip_min_length |-> soft_clip_min_length,
     element_tags |-> <<>>,
     map_command |-> None]

\* the job _run_pipeline creates: job(self.input_bam, self.reference_fasta,
\* SCRATCH_DIR), every other parameter at its default
pipeline_job(prog, job, SCRATCH_DIR) ==
    NewProcessDanglers(job, prog.input_bam, prog.reference_fasta, SCRATCH_DIR,
                       1, "ME", 38)

\* the job classes of _run_pipeline, in the order they run
pipeline_jobs(prog) ==
    IF prog.include_tails
    THEN <<ProcessForwardDanglers, ProcessReverseDanglers,
           ProcessForwardTailClips, ProcessReverseTailClips>>
    ELSE <<ProcessForwardDanglers, ProcessReverseDanglers>>

\* samtools view -f ... -F ... of a BAM file
samtools_view(job, bam_reads) ==
    SelectSeq(bam_reads,
              LAMBDA read : /\ \A n \in job.required : FlagBit(read.FLAG, n)
                            /\ \A n \in job.excluded : ~ FlagBit(read.FLAG, n))

\* re.findall(r"^[0-9]+[S]", cigar), then int(clip[0].strip('S'))
leading_clip(cigar) ==
    IF cigar # <<>> /\ cigar[1].op = "S" THEN Some(cigar[1].length) ELSE None

\* ProcessForwardTailClips._parse_reads, for one read
ProcessForwardTailClips_parse_reads(read, soft_clip_min_length) ==
    LET found == leading_clip(read.CIGAR)
    IN  IF found = None THEN <<>>
        ELSE LET c == Val(found)
             IN  IF c >= soft_clip_min_length
                 THEN << [name |-> read.QNAME,
                          element |-> read.RNAME,
                          sequence |-> PySlice(read.SEQ, 0, c + 1),
                          quality |-> PySlice(read.QUAL, 0, c + 1)] >>
                 ELSE <<>>

\* self._parse_reads(reads) of the job's class, for one read
parse_read(job, read) ==
    CASE job.class = "ProcessForwardDanglers" ->
            << [name |-> read.QNAME, element |-> read.RNAME,
                sequence |-> read.SEQ, quality |-> read.QUAL] >>
      [] job.class = "ProcessReverseDanglers" ->
            << [name |-> read.QNAME, element |-> read.RNAME,
                sequence |-> reverse_complement(read.SEQ),
                quality |-> reversed(read.QUAL)] >>
      [] job.class = "ProcessForwardTailClips" ->
            ProcessForwardTailClips_parse_reads(read, job.soft_clip_min_length)
      [] OTHER ->
            ProcessReverseTailClips_parse_reads(read, job.soft_clip_min_length)

\* self._parse_reads(reads): the dicts yielded for the reads of a BAM file
RECURSIVE parse_reads(_, _)
parse_reads(job, bam_reads) ==
    IF bam_reads = <<>> THEN <<>>
    ELSE parse_read(job, Head(bam_reads)) \o parse_reads(job, Tail(bam_reads))

\* the record fq.write puts into the FASTQ file for one dict
fastq_record(read) ==
    [name |-> read.name, sequence |-> read.sequence, quality |-> read.quality]

\* open(self.temp_fastq, 'w') that starts from an empty file
open_truncate(local_files, path) == <<>>

\* open(self.temp_fastq, 'a'): the records the file already holds, none
\* when it is created
open_append(local_files, path) ==
    IF path \in DOMAIN local_files THEN local_files[path] ELSE <<>>

\* a file written anew or over what it held
write_file(local_files, path, content) ==
    [p \in DOMAIN local_files \cup {path} |->
        IF p = path THEN content ELSE local_files[p]]

\* _extract_danglers: the job with its element_tags and the files with the
\* records written behind those of temp_fastq
extract_danglers(job, local_files) ==
    LET parsed_reads == parse_reads(job, local_files[job.temp_dangler_bam])
        names == {parsed_reads[i].name : i \in 1..Len(parsed_reads)}
        tags == [n \in DOMAIN job.element_tags \cup names |->
                    IF n \in names
                    THEN LET last == CHOOSE i \in 1..Len(parsed_reads) :
                                        /\ parsed_reads[i].name = n
                                        /\ \A j \in (i + 1)..Len(parsed_reads) :
                                               parsed_reads[j].name # n
                         IN  parsed_reads[last].element
                    ELSE job.element_tags[n]]
        written == [i \in 1..Len(parsed_reads) |-> fastq_record(parsed_reads[i])]
    IN  [job |-> [job EXCEPT !.element_tags = tags],
         files |-> write_file(local_files, job.temp_fastq,
                              open_append(local_files, job.temp_fastq) \o written)]

\* _map_danglers_to_reference: bwa mem -t {0} {1} {2} | ... -o {3}, one
\* mapped read per record of the FASTQ file
map_danglers_to_reference(job, local_files) ==
    LET records == local_files[job.temp_fastq]
        mapped == [i \in 1..Len(records) |->
                      [qname |-> records[i].name, seq |-> records[i].sequence,
                       qual |-> records[i].quality, tags |-> <<>>]]
    IN  [job |-> [job EXCEPT !.map_command =
                      Some([t |-> job.bwa_threads, reference |-> job.reference,
                            fastq |-> job.temp_fastq,
                            output |-> job.temp_mapped_danglers_bam])],
         files |-> write_file(local_files, job.temp_mapped_danglers_bam, mapped)]

\* _tag_danglers: the error raised, and the files with the tagged BAM, which
\* holds the reads written before a name without an element stopped the loop
tag_danglers(job, local_files) ==
    LET untagged == local_files[job.temp_mapped_danglers_bam]
        missing == {i \in 1..Len(untagged) :
                       untagged[i].qname \notin DOMAIN job.element_tags}
        done == IF missing = {} THEN Len(untagged)
                ELSE (CHOOSE i \in missing : \A j \in missing : i <= j) - 1
    IN  [error |-> IF missing = {} THEN "" ELSE "KeyError",
         files |-> write_file(local_files, job.temp_tagged_mapped_danglers_bam,
                       [i \in 1..done |->
                           [untagged[i] EXCEPT !.tags =
                               @ \o << <<job.element_tag,
                                         job.element_tags[untagged[i].qname]>> >>]])]

\* _ProcessDanglers.run() of the next job of the pipeline.  failure names
\* the external call that fails: "subset" the samtools pipe of _subset_bam,
\* "index" the samtools index of the mapped BAM, "" none
run_job(job, local_files, failure) ==
    IF failure = "subset"
    THEN [error |-> "CalledProcessError", job |-> job, files |-> local_files]
    ELSE LET subsetted == write_file(local_files, job.temp_dangler_bam,
                                     samtools_view(job, local_files[job.input_bam]))
             extracted == extract_danglers(job, subsetted)
             mapped == map_danglers_to_reference(extracted.job, extracted.files)
             tagged == tag_danglers(mapped.job, mapped.files)
         IN  IF failure = "index"
             THEN [error |-> "CalledProcessError", job |-> mapped.job,
                   files |-> mapped.files]
             ELSE [error |-> tagged.error, job |-> mapped.job, files |-> tagged.files]

\* if self.TEMP_DIR: the option is False (here None) unless the user gave a
\* directory
supplied(option) == option # None

\* shutil.rmtree(directory): the directories and the files left
rmtree(directory, local_dirs, local_files) ==
    [dirs |-> local_dirs \ {directory},
     files |-> [p \in {q \in DOMAIN local_files : q[1] # directory} |-> local_files[p]]]

\* the except branch that keeps the directory whoever supplied it
cleanup_after_error_kept(prog, directory, local_dirs, local_files) ==
    [dirs |-> local_dirs, files |-> local_files]

\* the except branch of run: remove temp dir unless it was supplied by user
cleanup_after_error(prog, directory, local_dirs, local_files) ==
    IF supplied(prog.TEMP_DIR)
    THEN [dirs |-> local_dirs, files |-> local_files]
    ELSE rmtree(directory, local_dirs, local_files)

\* the end of run: remove temp dir unless it was supplied by user
cleanup_after_success(prog, directory, local_dirs, local_files) ==
    IF supplied(prog.TEMP_DIR)
    THEN [dirs |-> local_dirs, files |-> local_files]
    ELSE rmtree(directory, local_dirs, local_files)

\* merge_bams(self.output_bam, *bams): the reads of the jobs' BAM files
RECURSIVE merge_bams(_, _)
merge_bams(local_files, local_jobs) ==
    IF local_jobs = <<>> THEN <<>>
    ELSE local_files[Head(local_jobs).temp_tagged_mapped_danglers_bam]
             \o merge_bams(local_files, Tail(local_jobs))

\* the bases and qualities of a read of n bases
Bases(n) == [i \in 1..n |-> IF i % 3 = 0 THEN "A" ELSE IF i % 3 = 1 THEN "C" ELSE "G"]
Quals(n) == [i \in 1..n |-> i]

\* a read of the repeat-element BAM
BamRead(name, flag, element, cigar) ==
    [QNAME |-> name, FLAG |-> flag, RNAME |-> element, CIGAR |-> cigar,
     SEQ |-> Bases(50), QUAL |-> Quals(50)]

\* the reads of the repeat-element BAM, in the order samtools sort gives
\* them: a forward and a reverse dangler, a forward read with a leading
\* clip of 40 and reverse reads with trailing clips of 5 and of 40
BamPool ==
    << BamRead("read001", 69, "Gypsy_Gypsy26", <<>>),
       BamRead("read002", 85, "Copia_Copia84", <<>>),
       BamRead("read003", 99, "Copia_Copia84",
               <<[length |-> 40, op |-> "S"], [length |-> 10, op |-> "M"]>>),
       BamRead("read004", 147, "MULE_MUDRAVI2",
               <<[length |-> 45, op |-> "M"], [length |-> 5, op |-> "S"]>>),
       BamRead("read005", 147, "MULE_MUDRAVI2",
               <<[length |-> 10, op |-> "M"], [length |-> 40, op |-> "S"]>>) >>

\* the BAM files given to the program: up to MaxBam reads of the pool
BamFiles ==
    {SelectSeq(BamPool, LAMBDA read : read.QNAME \in names) :
        names \in {s \in SUBSET {BamPool[i].QNAME : i \in 1..Len(BamPool)} :
                      Cardinality(s) <= MaxBam}}

\* the directory the user supplies and the n-th directory mkdtemp creates
UserDir == <<"user", 0>>
mkdtemp(n) == <<"tmp", n>>

\* the programs: the options of _cli at their defaults or set by the user
Programs ==
    {NewPreProcessProgram(include_tails, tail_minimum_length, mate_element_tag,
                          local_temp_dir, threads) :
        include_tails \in BOOLEAN, tail_minimum_length \in {38, 2},
        mate_element_tag \in {"ME", "XE"}, local_temp_dir \in {None, Some(UserDir)},
        threads \in {1, 2}}

InitProgram ==
    /\ ClusterIdle
    /\ MeltIdle
    /\ GroupsIdle
    /\ SamIdle
    /\ RefitIdle
    /\ ReadIdle
    /\ ClipIdle
    /\ program \in {Some(prog) : prog \in Programs}
    /\ dirs \in {{<<"data", 0>>}, {<<"data", 0>>, UserDir}}
    /\ files \in {InputBam :> bam : bam \in BamFiles}
    /\ temp_dir = None
    /\ jobs = <<>>
    /\ step = "idle"
    /\ runs = 0

\* PreProcessProgram.run up to the call of _run_pipeline: the check of the
\* programs, which raises when one is not installed, and the temp directory
RunStart ==
    /\ step \in {"idle", "returned", "raised"}
    /\ runs < MaxRuns
    /\ runs' = runs + 1
    /\ jobs' = <<>>
    /\ \E installed \in BOOLEAN :
          IF ~ installed
          THEN \* EnvironmentError from _check_programs_installed
               /\ step' = "raised"
               /\ temp_dir' = None
               /\ UNCHANGED dirs
          ELSE /\ step' = "pipeline"
               /\ IF supplied(Val(program).TEMP_DIR)
                  THEN /\ temp_dir' = Val(program).TEMP_DIR
                       /\ dirs' = dirs \cup {Val(Val(program).TEMP_DIR)}
                  ELSE /\ temp_dir' = Some(mkdtemp(runs + 1))
                       /\ dirs' = dirs \cup {mkdtemp(runs + 1)}
    /\ UNCHANGED <<program, files>>

\* one round of the loop of _run_pipeline: the next job is created and run
RunJob ==
    /\ step = "pipeline"
    /\ Len(jobs) < Len(pipeline_jobs(Val(program)))
    /\ \E failure \in {"", "subset", "index"} :
       \E done \in {run_job(pipeline_job(Val(program),
                                         pipeline_jobs(Val(program))[Len(jobs) + 1],
                                         Val(temp_dir)),
                            files, failure)} :
          /\ jobs' = Append(jobs, done.job)
          /\ files' = done.files
          /\ step' = IF done.error = "" THEN "pipeline" ELSE "except"
    /\ UNCHANGED <<program, dirs, temp_dir, runs>>

\* the end of _run_pipeline and of run: the BAM files of the jobs are
\* merged into output_bam and the temp directory is cleaned up
RunReturn ==
    /\ step = "pipeline"
    /\ Len(jobs) = Len(pipeline_jobs(Val(program)))
    /\ \E left \in {cleanup_after_success(
                        Val(program), Val(temp_dir), dirs,
                        write_file(files, Val(program).output_bam,
                                   merge_bams(files, jobs)))} :
          /\ dirs' = left.dirs
          /\ files' = left.files
    /\ step' = "returned"
    /\ UNCHANGED <<program, temp_dir, jobs, runs>>

\* the except branch of run: clean up, then re-raise the error
RunExcept ==
    /\ step = "except"
    /\ \E left \in {cleanup_after_error(Val(program), Val(temp_dir), dirs, files)} :
          /\ dirs' = left.dirs
          /\ files' = left.files
    /\ step' = "raised"
    /\ UNCHANGED <<program, temp_dir, jobs, runs>>

NextProgram ==
    \/ RunStart /\ UNCHANGED <<clusterVars, meltVars, groupVars, samVars, refitVars,
                               readVars, clipVars>>
    \/ RunJob /\ UNCHANGED <<clusterVars, meltVars, groupVars, samVars, refitVars,
                             readVars, clipVars>>
    \/ RunReturn /\ UNCHANGED <<clusterVars, meltVars, groupVars, samVars, refitVars,
                                readVars, clipVars>>
    \/ RunExcept /\ UNCHANGED <<clusterVars, meltVars, groupVars, samVars, refitVars,
                                readVars, clipVars>>

SpecProgram == InitProgram /\ [][NextProgram]_vars

(***************************************************************************)
(* Several calls of fit on one clusterer.  constructed is the model as its *)
(* constructor left it, before the model as it was when the latest call of *)
(* fit began, fits the number of calls begun.                              *)
(***************************************************************************)
\* the arrays fitted one after the other: the ascending arrays of up to
\* MaxRefitLen points and the arrays of any order
RefitArrays ==
    UNION {SortedFrom(n, 0) : n \in 0..MaxRefitLen} \cup AnyArrays

\* the clusterers fitted several times: pairs as the smallest cluster, the
\* hierarchical ones with max_eps left out, zero or set
RefitModels ==
    {NewUDBSCANx(2, e) : e \in 0..MaxEps}
    \cup {NewUDBSCANxH(2, E, None, m) :
             E \in {None, Some(0), Some(MaxEps)}, m \in Methods}

InitRefit ==
    /\ MeltIdle
    /\ GroupsIdle
    /\ SamIdle
    /\ ReadIdle
    /\ ClipIdle
    /\ ProgIdle
    /\ model \in RefitModels
    /\ constructed = Some(model)
    /\ before = None
    /\ fits = 0
    /\ fit_array = <<>>
    /\ pc = "idle"
    /\ points = <<>>
    /\ stack = <<>>
    /\ clusters = <<>>
    /\ visit = None

\* model.fit(a), on a model that was never fitted or whose last call of fit
\* returned or raised
FitAgain ==
    /\ pc \in {"idle", "returned", "raised"}
    /\ fits < MaxFits
    /\ fits' = fits + 1
    /\ before' = Some(model)
    /\ UNCHANGED constructed
    /\ \E a \in RefitArrays : UDBSCANx_fit(a) \/ UDBSCANxH_fit(a)

NextRefit ==
    \/ FitAgain /\ UNCHANGED <<meltVars, groupVars, samVars, readVars, clipVars,
                               progVars>>
    \/ traverse_cluster_tree /\ UNCHANGED <<meltVars, groupVars, samVars, otherVars>>
    \/ UDBSCANxH_return /\ UNCHANGED <<meltVars, groupVars, samVars, otherVars>>

SpecRefit == InitRefit /\ [][NextRefit]_vars

(***************************************************************************)
(* Claims about the flat clusterer.                                        *)
(***************************************************************************)
\* the state after a call of UDBSCANx.fit that returned
UDCReturned == model.class = "UDBSCANx" /\ pc = "returned"

\* the span of the window of k consecutive points that starts at index j
Span(X, j, k) == At(X, j + k - 1) - At(X, j)

\* C1 as stated: in every slice [l, u) emitted by UDBSCANx.fit, every
\* window of min_points consecutive indices inside the slice has
\* span <= epsilon.
C1_DensityGuarantee ==
    UDCReturned =>
        \A n \in 1..Len(model.slices) :
            LET s == model.slices[n]
            IN  \A j \in s.lower..(s.upper - model.min_points) :
                    Span(model.input_array, j, model.min_points) <= Val(model.epsilon)

\* C1 amended: in every slice [l, u) emitted by UDBSCANx.fit, every index
\* lies in a window of min_points consecutive indices inside the slice
\* with span <= epsilon, and with min_points = 2 every window inside the
\* slice has span <= epsilon.
C1_DensityCovered ==
    UDCReturned =>
        \A n \in 1..Len(model.slices) :
            LET s == model.slices[n]
                k == model.min_points
                X == model.input_array
                Dense(j) == Span(X, j, k) <= Val(model.epsilon)
            IN  /\ \A i \in s.lower..(s.upper - 1) :
                      \E j \in s.lower..(s.upper - k) : j <= i /\ i < j + k /\ Dense(j)
                /\ k = 2 => \A j \in s.lower..(s.upper - k) : Dense(j)

\* a fit that emitted a cluster merged from several sub-clusters and a
\* second cluster that begins right where the first one ends
C1_Witness ==
    /\ UDCReturned
    /\ \E n \in 1..(Len(model.slices) - 1) :
          /\ model.slices[n].upper - model.slices[n].lower > model.min_points
          /\ model.slices[n].upper = model.slices[n + 1].lower

\* the slices are inside the array, non-empty, disjoint and ascending
SlicesDisjointAscending(slices, length) ==
    /\ \A n \in 1..Len(slices) :
          0 <= slices[n].lower /\ slices[n].lower < slices[n].upper
                               /\ slices[n].upper <= length
    /\ \A n \in 1..(Len(slices) - 1) : slices[n].upper <= slices[n + 1].lower

\* C2: the slices emitted by UDBSCANx.fit and by UDBSCANxH.fit (either
\* method, max_eps given or not) are pairwise disjoint, ascending in lower,
\* and satisfy 0 <= lower < upper <= len(X).
C2_DisjointAscending ==
    pc = "returned" => SlicesDisjointAscending(model.slices, Len(fit_array))

\* a hierarchical fit that descended into children and emitted three or
\* more clusters
C2_Witness ==
    /\ model.class = "UDBSCANxH"
    /\ pc = "returned"
    /\ Len(model.slices) >= 3
    /\ Len(cluster(fit_array, model.min_points, Val(model.max_eps))) = 1

\* C3: a slice emitted by UDBSCANx.fit cannot be extended by one index:
\* the window that starts at l - 1 and the window that ends at u both have
\* span > epsilon, whenever those indices exist.
C3_Maximality ==
    UDCReturned =>
        \A n \in 1..Len(model.slices) :
            LET l == model.slices[n].lower
                u == model.slices[n].upper
                k == model.min_points
                X == model.input_array
            IN  /\ l > 0 => Span(X, l - 1, k) > Val(model.epsilon)
                /\ u < Len(X) => Span(X, u - k + 1, k) > Val(model.epsilon)

\* a fit that emitted a slice with a point before it and a point after it
C3_Witness ==
    /\ UDCReturned
    /\ \E n \in 1..Len(model.slices) :
          model.slices[n].lower > 0 /\ model.slices[n].upper < Len(model.input_array)

(***************************************************************************)
(* Claims about the preconditions and the primitives of the hierarchy.     *)
(***************************************************************************)
IsAscending(X) == \A i \in 1..Len(X) : \A j \in i..Len(X) : X[i] <= X[j]

\* the call of fit has ended
FitEnded == pc \in {"returned", "raised"}

\* C4: fit returns without error on every ascending-sorted array and
\* raises on every array that is not sorted ascending.
C4_SortedPrecondition ==
    FitEnded => (pc = "returned" <=> IsAscending(fit_array))

\* the smallest span of a window of k consecutive points containing index i
WindowMin(X, k, i) ==
    LET first == Max2(0, i - k + 1)
        last == Min2(Len(X) - k, i)
        spans == {Span(X, j, k) : j \in first..last}
    IN  CHOOSE m \in spans : \A v \in spans : m <= v

\* C5: core_distances(X, k) has the length of X and D[i] is the minimum of
\* X[j+k-1] - X[j] over max(0, i-k+1) <= j <= min(n-k, i); point i belongs
\* to a sub-cluster at eps exactly when D[i] <= eps.
C5_CoreDistances ==
    (points # <<>> /\ ~ Truthy(model.min_eps)) =>
        LET X == fit_array
            k == model.min_points
        IN  /\ Len(points) = Len(X)
            /\ \A i \in 0..(Len(X) - 1) : At(points, i).core_dist = WindowMin(X, k, i)
            /\ \A eps \in 0..MaxVal :
                  LET sub == subcluster(X, k, eps)
                      covered == UNION {sub[n].lower..(sub[n].upper - 1) : n \in 1..Len(sub)}
                  IN  \A i \in 0..(Len(X) - 1) :
                          i \in covered <=> At(points, i).core_dist <= eps

\* core distances were computed for an array where they differ between
\* points and where the first point has a single window
C5_Witness ==
    /\ points # <<>>
    /\ ~ Truthy(model.min_eps)
    /\ model.min_points = 3
    /\ Len(points) > 3
    /\ \E i, j \in 1..Len(points) : points[i].core_dist < points[j].core_dist
    /\ points[1].core_dist > points[2].core_dist

\* the number of clusters UDC finds in X at eps
NClusters(X, k, eps) == Len(cluster(X, k, eps))

\* the largest span between two points of X
Extent(X) == IF Len(X) = 0 THEN 0 ELSE X[Len(X)] - X[1]

ForkCharacterised(X, k, fork) ==
    IF fork = None
    THEN \A eps \in 0..Extent(X) : NClusters(X, k, eps) <= 1
    ELSE /\ NClusters(X, k, Val(fork) - 1) >= 2
         /\ \A eps \in Val(fork)..(Extent(X) + 1) : NClusters(X, k, eps) = 1

RECURSIVE SumOver(_, _)
SumOver(S, F) ==
    IF S = {} THEN 0
    ELSE LET p == CHOOSE q \in S : TRUE IN F[p] + SumOver(S \ {p}, F)

\* the core distance D[p] of point p of the fitted array, raised to min_eps
\* when min_eps is set
FlooredCoreDistance(p) ==
    LET d == WindowMin(fit_array, model.min_points, p)
    IN  IF model.min_eps = None THEN d ELSE Max2(d, Val(model.min_eps))

\* the indices of the original array a cluster holds
IndexSet(local_points) == {local_points[i].index : i \in 1..Len(local_points)}

\* the selection rule for cluster C with fork f and ceiling eps_max
RuleSelectsParent(C, f, eps_max) ==
    LET E == Val(model.max_eps)
        ParentTerm == [p \in C |->
            (IF model.method = "conservative" THEN E ELSE eps_max)
                - Max2(f, FlooredCoreDistance(p))]
        ChildTerm == [p \in C |-> Max2(0, f - FlooredCoreDistance(p))]
    IN  SumOver(C, ParentTerm) >= SumOver(C, ChildTerm)

\* the pending calls at the head of the stack are exactly the clusters UDC
\* finds in X at eps, shifted by base, each with ceiling eps_max
PendingAre(n, X, base, eps, eps_max) ==
    LET found == cluster(X, model.min_points, eps)
    IN  /\ n = Len(found)
        /\ Len(stack) >= n
        /\ \A i \in 1..n :
              /\ stack[i].local_max_eps = eps_max
              /\ IndexSet(stack[i].points)
                     = (base + found[i].lower)..(base + found[i].upper - 1)

\* the extremities of the emitted clusters
Extremities == cluster_extremities(model)

\* C7: a visited cluster without fork is emitted; a cluster that forks at
\* f is emitted exactly when support_parent >= support_children, where
\* the parent's ceiling is E (conservative) or eps_max (aggressive),
\* eps_max being E for seed clusters and the parent's f in recursive
\* calls; otherwise its UDC clusters at f - 1 are visited with eps_max = f.
\* The three-triplet array with k = 3, conservative, gives one cluster for
\* max_eps = 50 and three for max_eps = 20.
C7_SelectionRule ==
    /\ (pc = "traverse" /\ visit = None) =>
          PendingAre(Len(stack), fit_array, 0, Val(model.max_eps), Val(model.max_eps))
    /\ visit # None =>
          LET v == Val(visit)
              C == IndexSet(v.points)
              first == v.points[1].index
          IN  IF v.fork_epsilon = None
              THEN /\ v.selected
                   /\ clusters[Len(clusters)] = bounds_of(v.points)
              ELSE LET f == Val(v.fork_epsilon)
                   IN  /\ v.selected <=> RuleSelectsParent(C, f, v.local_max_eps)
                       /\ v.selected => clusters[Len(clusters)] = bounds_of(v.points)
                       /\ ~ v.selected =>
                             PendingAre(NClusters(Values(v.points), model.min_points, f - 1),
                                        Values(v.points), first, f - 1, f)
    /\ (/\ pc = "returned" /\ model.class = "UDBSCANxH"
        /\ fit_array = TripletArray /\ model.min_points = 3
        /\ model.method = "conservative") =>
          /\ model.max_eps = Some(50) => Extremities = << <<0, 43>> >>
          /\ model.max_eps = Some(20) =>
                Extremities = << <<0, 3>>, <<20, 23>>, <<40, 43>> >>

\* a recursive call of the aggressive method on a cluster that forks, decided
\* for the parent on a tie of the two supports
C7_Witness ==
    /\ visit # None
    /\ model.method = "aggressive"
    /\ Val(visit).fork_epsilon # None
    /\ Val(visit).local_max_eps # Val(model.max_eps)
    /\ Val(visit).selected
    /\ support_parent(Val(visit).local_max_eps, Val(Val(visit).fork_epsilon),
                      CoreDist(Val(visit).points))
           = support_of_children(Val(Val(visit).fork_epsilon),
                                 CoreDist(Val(visit).points))

\* C8: with max_eps not set, UDBSCANxH.fit on a sorted array of at least
\* min_points points never raises, also when the array has no fork.
C8_NoForkNeverSurfaces ==
    ~ (/\ model.class = "UDBSCANxH"
       /\ pc = "raised"
       /\ model.max_eps = None
       /\ IsAscending(fit_array)
       /\ Len(fit_array) >= model.min_points)

\* C9: on a sorted array shorter than min_points both fits finish with an
\* empty slice sequence, and so does UDBSCANx.fit when no window of
\* min_points points has span <= epsilon.
C9_EmptyResult ==
    /\ (pc # "idle" /\ IsAscending(fit_array) /\ Len(fit_array) < model.min_points) =>
          (pc = "returned" /\ model.slices = <<>> /\ model.input_array = fit_array)
    /\ (/\ model.class = "UDBSCANx" /\ pc # "idle" /\ IsAscending(fit_array)
        /\ \A j \in 0..(Len(fit_array) - model.min_points) :
              Span(fit_array, j, model.min_points) > Val(model.epsilon)) =>
          (pc = "returned" /\ model.slices = <<>>)

\* a hierarchical fit on a non-empty array one point short of min_points
C9_Witness ==
    /\ model.class = "UDBSCANxH"
    /\ pc = "returned"
    /\ Len(fit_array) = model.min_points - 1
    /\ model.slices = <<>>

(***************************************************************************)
(* Claims about the interval melt.                                         *)
(***************************************************************************)
\* the integers covered by a sequence of closed intervals
Covered(intervals) ==
    UNION {intervals[i].start..intervals[i].stop : i \in 1..Len(intervals)}

\* C10: for any finite sequence of closed intervals, in any order and
\* possibly overlapping, _loci_melter emits intervals that cover exactly
\* the integers the inputs cover, ascending by start, with
\* prev.stop < next.start for consecutive emitted intervals.
C10_MinimalCover ==
    melted # None =>
        LET out == Val(melted).intervals
        IN  /\ Val(melted).error = ""
            /\ Covered(out) = Covered(loci)
            /\ \A i \in 1..Len(out) : out[i].start <= out[i].stop
            /\ \A i \in 1..(Len(out) - 1) :
                  out[i].start < out[i + 1].start /\ out[i].stop < out[i + 1].start

\* C11: for every non-empty interval sequence I, _loci_melter applied to
\* the output of _loci_melter(I) returns the same interval sequence as
\* _loci_melter(I).
C11_MeltIdempotent ==
    (remelted # None /\ loci # <<>>) => Val(remelted) = Val(melted)

\* a second melt of an output of two intervals that the first melt merged
\* from three overlapping, unordered inputs
C11_Witness ==
    /\ remelted # None
    /\ Len(loci) = 3
    /\ Len(Val(melted).intervals) = 2
    /\ \E i \in 1..2 : loci[i].start > loci[i + 1].start
    /\ Val(remelted).error = ""

(***************************************************************************)
(* Claims about the union of loci groups.                                  *)
(***************************************************************************)
\* the keys of the objects of an argument list
InputKeys(a) == UNION {groups_of(a[i]) : i \in 1..Len(a)}

\* the keys of obj that project to group
KeysOver(obj, group) ==
    {k \in groups_of(obj) : <<k[1], k[2], k[3]>> = group}

\* the intervals the arguments hold under the keys that project to group
InputIntervals(a, group) ==
    UNION {UNION {{a[i].dict[k][n] : n \in 1..Len(a[i].dict[k])} :
                     k \in KeysOver(a[i], group)} : i \in 1..Len(a)}

\* out is the melt of the intervals of inputs: it covers what they cover,
\* ascending, with a gap between consecutive intervals
MeltOf(out, inputs) ==
    /\ Covered(out) = UNION {iv.start..iv.stop : iv \in inputs}
    /\ \A n \in 1..Len(out) : out[n].start <= out[n].stop
    /\ \A n \in 1..(Len(out) - 1) : out[n].stop < out[n + 1].start

\* the bins of a sequence that contain the interval iv
BinsHolding(out, iv) ==
    {n \in 1..Len(out) : out[n].start <= iv.start /\ iv.stop <= out[n].stop}

\* C12: from_union returns bins whose keys are exactly the (reference,
\* strand, category) projections of every input key, also of the keys
\* whose interval sequence is empty, and whose intervals per key are the
\* melt of all input intervals with that projected key; every input
\* interval lies inside exactly one bin of its projected key.
C12_UnionContract ==
    \A a \in DOMAIN bins :
        LET b == bins[a]
        IN  /\ b.error = ""
            /\ groups_of(b) = {<<k[1], k[2], k[3]>> : k \in InputKeys(a)}
            /\ \A group \in groups_of(b) :
                  /\ MeltOf(b.dict[group], InputIntervals(a, group))
                  /\ \A iv \in InputIntervals(a, group) :
                        Cardinality(BinsHolding(b.dict[group], iv)) = 1

\* C13: from_union(a, b) and from_union(b, a) have the same keys and, per
\* key, the same interval sequence (and one raises when the other does).
C13_UnionCommutative ==
    (args \in DOMAIN bins /\ Swapped(args) \in DOMAIN bins) =>
        bins[args] = bins[Swapped(args)]

\* both orders were called on the FingerPrints of two samples that overlap
\* in one group and of which only one has the other group
C13_Witness ==
    /\ args \in DOMAIN bins
    /\ Swapped(args) \in DOMAIN bins
    /\ bins[args].error = ""
    /\ groups_of(args[1]) = {Key("+", "a"), Key("-", "a")}
    /\ groups_of(args[2]) = {Key("+", "b")}
    /\ Len(args[1].dict[Key("+", "a")]) = 2
    /\ Len(args[2].dict[Key("+", "b")]) = 1
    /\ Len(bins[args].dict[<<"chr1", "+", "te">>]) = 1
    /\ Len(bins[args].dict[<<"chr1", "-", "te">>]) = 1

(***************************************************************************)
(* Claims about merge.                                                     *)
(***************************************************************************)
\* C20: merge of groups of one concrete type returns a group of that type
\* whose keys are the union of the inputs' keys with, on key collision,
\* the value of the later argument; when the inputs have pairwise distinct
\* keys both orders give the same key-to-intervals mapping; merging
\* groups of different concrete types raises an error.
C20_Merge ==
    /\ \A a \in DOMAIN merged :
          LET r == merged[a]
          IN  IF a[1].type = a[2].type
              THEN /\ r.error = ""
                   /\ r.type = a[1].type
                   /\ groups_of(r) = groups_of(a[1]) \cup groups_of(a[2])
                   /\ \A k \in groups_of(r) :
                         r.dict[k] = IF k \in groups_of(a[2])
                                     THEN a[2].dict[k] ELSE a[1].dict[k]
              ELSE r.error # ""
    /\ (/\ args \in DOMAIN merged
        /\ Swapped(args) \in DOMAIN merged
        /\ args[1].type = args[2].type
        /\ groups_of(args[1]) \cap groups_of(args[2]) = {}) =>
          merged[args].dict = merged[Swapped(args)].dict

\* both orders were merged on two FingerPrints that collide on one key with
\* different intervals and have one key each that the other lacks
C20_Witness ==
    /\ args \in DOMAIN merged
    /\ Swapped(args) \in DOMAIN merged
    /\ groups_of(args[1]) = {Key("+", "a"), Key("-", "a")}
    /\ groups_of(args[2]) = {Key("-", "a")}
    /\ args[1].dict[Key("-", "a")] # args[2].dict[Key("-", "a")]
    /\ merged[args].error = ""
    /\ merged[args] # merged[Swapped(args)]

(***************************************************************************)
(* Claims about the comparison of reads with bins.                         *)
(***************************************************************************)
\* the call of compare has ended, by a return or an exception
Compared == comparison # None

\* the call of compare returned a Comparison
ComparisonReturned == comparison # None /\ Val(comparison).error = ""

\* the sources of the groups of reads whose projection is group
SourcesOf(group) == {k[4] : k \in KeysOver(reads, group)}

\* seq lists the names of the set exactly once each, in ascending order
AscendingListOf(seq, names) ==
    /\ {seq[i] : i \in 1..Len(seq)} = names
    /\ \A i \in 1..(Len(seq) - 1) : StrRank(seq[i]) < StrRank(seq[i + 1])

\* the tip of a read of a group: its stop on the '+' strand, its start
\* on any other
Tip(group, read) == IF group[2] = "+" THEN read.stop ELSE read.start

\* the reads of a sample in a group whose tip lies in lo..hi
TipsWithin(group, sample, positions) ==
    LET group_reads == reads.dict[group \o <<sample>>]
    IN  {j \in 1..Len(group_reads) : Tip(group, group_reads[j]) \in positions}

\* C14: compare returns, for every bin of every group g of the bins, a
\* row whose samples list is the ascending list of the distinct sources of
\* exactly the ReadLoci groups whose (reference, strand, category) is g.
C14_SamplesPerGroup ==
    Compared =>
        LET c == Val(comparison)
            b == bins[args]
        IN  /\ c.error = ""
            /\ groups_of(c) = groups_of(b)
            /\ \A g \in groups_of(b) :
                  /\ Len(c.dict[g]) = Len(b.dict[g])
                  /\ \A n \in 1..Len(b.dict[g]) :
                        /\ c.dict[g][n].start = b.dict[g][n].start
                        /\ c.dict[g][n].stop = b.dict[g][n].stop
                        /\ AscendingListOf(c.dict[g][n].samples, SourcesOf(g))

\* C15: in every row of the Comparison len(samples) = len(counts) and
\* counts[i] is the number of tips of sample samples[i] in the row's group
\* with start <= tip <= stop; the bin (100, 200) with tips 105, 150, 250
\* and 199, 200, 201 gets counts [2, 2].
C15_Counts ==
    ComparisonReturned =>
        LET c == Val(comparison)
        IN  /\ \A g \in groups_of(c) : \A n \in 1..Len(c.dict[g]) :
                  LET row == c.dict[g][n]
                  IN  /\ Len(row.samples) = Len(row.counts)
                      /\ \A i \in 1..Len(row.samples) :
                            row.counts[i] =
                                Cardinality(TipsWithin(g, row.samples[i],
                                                       row.start..row.stop))
            /\ reads = ScenarioReads =>
                  c.dict[<<"chr1", "+", "te">>] =
                      << [start |-> 100, stop |-> 200,
                          samples |-> <<"a", "b">>, counts |-> <<2, 2>>] >>

\* a Comparison of two samples with a bin that has a tip of one sample on
\* its stop and a tip of that sample outside
C15_Witness ==
    /\ ComparisonReturned
    /\ reads # ScenarioReads
    /\ \E g \in groups_of(Val(comparison)) :
          \E n \in 1..Len(Val(comparison).dict[g]) :
              LET row == Val(comparison).dict[g][n]
              IN  /\ Len(row.samples) = 2
                  /\ row.counts[1] = 1
                  /\ TipsWithin(g, "a", {row.stop}) # {}
                  /\ Len(reads.dict[g \o <<"a">>]) = 2

\* the sum of the counts of sample i over the rows of a group
RECURSIVE CountSum(_, _)
CountSum(rows, i) ==
    IF rows = <<>> THEN 0 ELSE Head(rows).counts[i] + CountSum(Tail(rows), i)

\* C16: with bins built by from_union, for every group and sample the sum
\* of the sample's counts over the bins of the group is the number of the
\* sample's tips that lie in the union of the bins: no tip is counted in
\* two bins.
C16_CountConservation ==
    ComparisonReturned =>
        LET c == Val(comparison)
        IN  \A g \in groups_of(c) :
                \A i \in 1..Len(sort_strings({k[4] : k \in groups_of(reads)})) :
                    Len(c.dict[g]) > 0 =>
                        CountSum(c.dict[g], i) =
                            Cardinality(TipsWithin(g, c.dict[g][1].samples[i],
                                                   Covered(bins[args].dict[g])))

\* a Comparison over two bins melted from the clusters of two samples that
\* touch, with a tip on the position where they touch
C16_Witness ==
    /\ ComparisonReturned
    /\ Len(args) = 2
    /\ \E g \in groups_of(Val(comparison)) :
          /\ Len(Val(comparison).dict[g]) = 1
          /\ \E x \in 1..Len(args[1].dict[g \o <<"a">>]) :
                /\ args[2].dict[g \o <<"b">>] # <<>>
                /\ args[1].dict[g \o <<"a">>][x].stop
                       = args[2].dict[g \o <<"b">>][1].start
                /\ TipsWithin(g, "a", {args[1].dict[g \o <<"a">>][x].stop}) # {}

(***************************************************************************)
(* Claims about the SAM line parsers.                                      *)
(***************************************************************************)
\* C17: every SAM line parser of the repository gives, for a mapped read
\* with 1-based POS p and SEQ of length L, tip = p + L - 1 and tail = p on
\* the '+' strand and tip = p, tail = p + L - 1 on the '-' strand, the
\* strand being the one supplied or, when none is supplied, the one of
\* flag bit 0x10 (pos 2, length 7, '+': tip 8, tail 2; pos 7, length 3,
\* '-': tip 7, tail 9).
C17_TipRule ==
    (parsed # None /\ ~ FlagBit(sam.attr[2], 2)) =>
        LET p == sam.attr[4]
            L == Len(sam.attr[10])
            strand == IF sam.strand # None THEN Val(sam.strand)
                      ELSE IF (sam.attr[2] \div 16) % 2 = 1 THEN "-" ELSE "+"
            result == Val(parsed)
        IN  /\ result # None
            /\ strand = "+" => Val(result).tip = p + L - 1 /\ Val(result).tail = p
            /\ strand = "-" => Val(result).tip = p /\ Val(result).tail = p + L - 1

(***************************************************************************)
(* Claims about fingerprints.                                              *)
(***************************************************************************)
\* C18: ReadLoci.fingerprint, hierarchical or flat, leaves the ReadLoci
\* unchanged: in every group the sequence of (start, stop, name) records
\* after the call equals the sequence before it, also when the reads are
\* not stored in ascending tip order.
C18_ReadsUnchanged == [][reads' = reads]_vars

\* C19: the intervals (X[lower], X[upper - 1]) of the clusters of a UDC or
\* HUDC fit on sorted tips are ascending by start and pairwise disjoint as
\* closed intervals: stop_i < start_(i+1) for consecutive intervals, also
\* when X holds duplicate values where two clusters meet.
C19_FingerprintDisjoint ==
    (pc = "returned" /\ IsAscending(fit_array)) =>
        /\ \A n \in 1..Len(Extremities) : Extremities[n][1] <= Extremities[n][2]
        /\ \A n \in 1..(Len(Extremities) - 1) :
              /\ Extremities[n][1] < Extremities[n + 1][1]
              /\ Extremities[n][2] < Extremities[n + 1][1]

\* a hierarchical fit that returned two clusters whose slices touch, the
\* first ending and the second beginning with a duplicated value
C19_Witness ==
    /\ pc = "returned"
    /\ model.class = "UDBSCANxH"
    /\ \E n \in 1..(Len(model.slices) - 1) :
          LET u == model.slices[n].upper
          IN  /\ u = model.slices[n + 1].lower
              /\ At(fit_array, u - 1) = At(fit_array, u - 2)
              /\ At(fit_array, u) = At(fit_array, u + 1)

(***************************************************************************)
(* Claims about ReadGroup.                                                 *)
(***************************************************************************)
\* the call of subset_by_locus returned a group
SubsetReturned == subset # None /\ Val(subset).error = ""

\* the places in the group of the reads whose selected end (both ends for
\* 'both') lies in [start - margin, stop + margin]
Selected(group_reads, call) ==
    {i \in 1..Len(group_reads) :
        LET lo == call.start - call.margin
            hi == call.stop + call.margin
            tip_in == lo <= group_reads[i].tip /\ group_reads[i].tip <= hi
            tail_in == lo <= group_reads[i].tail /\ group_reads[i].tail <= hi
        IN  CASE call.end = "tip" -> tip_in
              [] call.end = "tail" -> tail_in
              [] OTHER -> tip_in /\ tail_in}

YieldedSeq(record) ==
    IF "SEQ" \in DOMAIN record THEN record.SEQ ELSE record.sequence
YieldedQual(record) ==
    IF "QUAL" \in DOMAIN record THEN record.QUAL ELSE record.quality

\* the last c elements of a string, first to last
LastOf(string, c) == [i \in 1..c |-> string[Len(string) - c + i]]

\* the reverse complement of upper-case bases, base by base
Paired(base) ==
    CASE base = "A" -> "T" [] base = "T" -> "A" [] base = "C" -> "G"
      [] base = "G" -> "C" [] OTHER -> "N"

\* the reverse soft-clipped tail rule, for the extractor named
TailRule(extractor) ==
    (dangler # None /\ Val(clip).extractor = extractor
        /\ trailing_clip(Val(clip).read.CIGAR) # None) =>
        LET read == Val(clip).read
            c == read.CIGAR[Len(read.CIGAR)].length
            out == Val(dangler)
            tail == LastOf(read.SEQ, c)
            qual == LastOf(read.QUAL, c)
        IN  /\ (Len(out) = 1) <=> (c >= Val(clip).min_length)
            /\ Len(out) <= 1
            /\ Len(out) = 1 =>
                  /\ Len(YieldedSeq(out[1])) = c
                  /\ Len(YieldedQual(out[1])) = c
                  /\ \A i \in 1..c :
                        /\ YieldedSeq(out[1])[i] = Paired(upper(tail[c + 1 - i]))
                        /\ YieldedQual(out[1])[i] = qual[c + 1 - i]

\* C22: a reverse-strand read whose CIGAR ends in a soft clip of length c is
\* emitted exactly when c >= the minimum tail length, with the reverse
\* complement of the last c bases of SEQ and the last c characters of QUAL
\* reversed, in extract_reverse_soft_clips and in
\* ProcessReverseTailClips._parse_reads
C22_ReverseTailClips ==
    /\ TailRule("extract_reverse_soft_clips")
    /\ TailRule("ProcessReverseTailClips")

\* the jobs the call of run in progress (or the last one) has started
StartedJobs == {jobs[i] : i \in 1..Len(jobs)}

\* C23: every job started by _run_pipeline applies the configured
\* tail_minimum_length as its soft-clip threshold, writes the configured
\* mate_element_tag as the tag name and passes the configured threads to the
\* aligner
C23_OptionsReachJobs ==
    \A job \in StartedJobs :
        /\ job.soft_clip_min_length = Val(program).tail_minimum_length
        /\ job.element_tag = Val(program).mate_element_tag
        /\ job.map_command # None =>
               Val(job.map_command).t = Val(program).threads

\* the temp directory of the call is one that mkdtemp created
TempDirCreated == temp_dir # None /\ ~ supplied(Val(program).TEMP_DIR)

\* a step leaves the user's directory in place
UserDirKept == (UserDir \in dirs) => (UserDir \in dirs')

\* a pipeline error goes from the except branch to the caller, and nothing
\* else raises once the temp directory is chosen
RaisedAfterCleanup ==
    /\ (step = "except") => (step' = "raised")
    /\ (step' = "raised" /\ step # "raised") =>
           (step = "except" \/ temp_dir' = None)

\* C24: a temp directory created by run no longer exists once run has
\* returned or raised; a temp directory supplied by the user is never
\* removed; and an error raised inside the pipeline reaches the caller
\* right after the cleanup step
C24_TempDirLifecycle ==
    /\ []((step \in {"returned", "raised"} /\ TempDirCreated)
              => Val(temp_dir) \notin dirs)
    /\ []((step \in {"idle", "returned", "raised"})
              => \A n \in 1..MaxRuns : mkdtemp(n) \notin dirs)
    /\ [][UserDirKept]_vars
    /\ [][RaisedAfterCleanup]_vars

\* the second call of run raised inside the pipeline after a job had run in
\* the directory it created, and the directory is gone
C24_Witness ==
    /\ step = "raised"
    /\ TempDirCreated
    /\ Val(temp_dir) = mkdtemp(2)
    /\ Len(jobs) >= 2
    /\ mkdtemp(2) \notin dirs
    /\ \A p \in DOMAIN files : p[1] # mkdtemp(2)

\* C30: after any number of runs in the same user-supplied temp directory,
\* the dangler FASTQ of each job holds exactly the reads extracted from the
\* job's subset BAM in the most recent run, each once
C30_FastqOfLatestRun ==
    supplied(Val(program).TEMP_DIR) =>
        \A job \in StartedJobs :
            (job.map_command # None /\ job.temp_fastq \in DOMAIN files) =>
                LET extracted == parse_reads(job, files[job.temp_dangler_bam])
                IN  files[job.temp_fastq] =
                        [i \in 1..Len(extracted) |-> fastq_record(extracted[i])]

(***************************************************************************)
(* Further claims about the clusterers.                                    *)
(***************************************************************************)
\* the sub-cluster slices of X in order of lower: the windows of k
\* consecutive points whose span is <= eps
DenseWindows(X, k, eps) ==
    SelectSeq([j \in 1..(Len(X) - k + 1) |-> [lower |-> j - 1, upper |-> j - 1 + k]],
              LAMBDA w : Span(X, w.lower, k) <= eps)

\* the slices walked in order: the current slice is extended while the next
\* one starts below its upper (or at it, when touching slices are merged),
\* otherwise it is emitted and the next one becomes the current slice
RECURSIVE MergeInOrder(_, _, _)
MergeInOrder(slices, current, touching) ==
    IF slices = <<>> THEN <<current>>
    ELSE LET next == Head(slices)
         IN  IF next.lower < current.upper \/ (touching /\ next.lower = current.upper)
             THEN MergeInOrder(Tail(slices), [current EXCEPT !.upper = next.upper],
                               touching)
             ELSE <<current>> \o MergeInOrder(Tail(slices), next, touching)

MergedWindows(X, k, eps, touching) ==
    LET windows == DenseWindows(X, k, eps)
    IN  IF windows = <<>> THEN <<>>
        ELSE MergeInOrder(Tail(windows), Head(windows), touching)

\* C25 as stated: the current slice is extended whenever the next slice's
\* lower <= the current upper, so half-open slices that merely touch are
\* merged into one cluster
C25_TouchingMerged ==
    UDCReturned =>
        model.slices = MergedWindows(model.input_array, model.min_points,
                                     Val(model.epsilon), TRUE)

\* C25 amended: the current slice is extended whenever the next slice's
\* lower < the current upper; half-open slices that merely touch share no
\* point and stay two clusters
C25_OverlappingMerged ==
    UDCReturned =>
        model.slices = MergedWindows(model.input_array, model.min_points,
                                     Val(model.epsilon), FALSE)

\* a fit that returned two clusters that touch, one of them melted from
\* several sub-clusters
C25_Witness ==
    /\ UDCReturned
    /\ \E i \in 1..(Len(model.slices) - 1) :
           model.slices[i].upper = model.slices[i + 1].lower
    /\ \E i \in 1..Len(model.slices) :
           model.slices[i].upper - model.slices[i].lower > model.min_points

\* a call of fit on the hierarchical clusterer has returned
RefitReturned == model.class = "UDBSCANxH" /\ pc = "returned" /\ fits >= 1

\* C26: UDBSCANxH.fit leaves min_points, max_eps, min_eps and method as the
\* constructor set them, so the slices of every fit are those a fresh model
\* with the same constructor arguments gives for the same array
C26_FitPure ==
    RefitReturned =>
        /\ model.min_points = Val(constructed).min_points
        /\ model.max_eps = Val(constructed).max_eps
        /\ model.min_eps = Val(constructed).min_eps
        /\ model.method = Val(constructed).method
        /\ model.slices = run(Val(constructed), fit_array).slices

\* no call of fit on the model is in progress
BetweenFits == pc \in {"idle", "returned", "raised"}

\* C27: after any sequence of calls of fit, every slice of the model lies
\* inside the stored input_array (0 <= lower < upper <= len), the slices are
\* the clustering of that array, and a call that raised left input_array
\* and slices as they were before it
C27_StateConsistent ==
    BetweenFits =>
        /\ \A i \in 1..Len(model.slices) :
               /\ 0 <= model.slices[i].lower
               /\ model.slices[i].lower < model.slices[i].upper
               /\ model.slices[i].upper <= Len(model.input_array)
        /\ model.class = "UDBSCANx" =>
               model.slices = MergedWindows(model.input_array, model.min_points,
                                            Val(model.epsilon), FALSE)
        /\ pc = "raised" =>
               /\ model.input_array = Val(before).input_array
               /\ model.slices = Val(before).slices

\* the latest visit of the traversal did not select its cluster
VisitDescended == pc = "traverse" /\ visit # None /\ ~ Val(visit).selected

\* the child clusters of the cluster C at its fork f: UDC at f - 1
ChildrenOf(C, f) == MergedWindows(Values(C), model.min_points, f - 1, FALSE)

\* every visit that does not select its cluster leaves at least two
\* children on the pending calls, each a strict sub-slice of the cluster,
\* no point in two of them
ChildrenShrink ==
    VisitDescended =>
        LET C == Val(visit).points
            f == Val(Val(visit).fork_epsilon)
            children == ChildrenOf(C, f)
        IN  /\ Len(children) >= 2
            /\ Len(stack) >= Len(children)
            /\ \A i \in 1..Len(children) :
                   /\ 0 <= children[i].lower
                   /\ children[i].upper <= Len(C)
                   /\ children[i].upper - children[i].lower < Len(C)
                   /\ Len(stack[i].points) = children[i].upper - children[i].lower
                   /\ IndexSet(stack[i].points) =
                          {C[j].index : j \in (children[i].lower + 1)..children[i].upper}
            /\ \A i, j \in 1..Len(children) :
                   i # j => IndexSet(stack[i].points) \cap IndexSet(stack[j].points) = {}

\* the work the pending calls still hold: a call on n points can be
\* followed by at most 2n - 1 calls, itself included
RECURSIVE PendingWork(_)
PendingWork(calls) ==
    IF calls = <<>> THEN 0
    ELSE 2 * Len(Head(calls).points) - 1 + PendingWork(Tail(calls))

\* every step of the traversal leaves less work pending than it found
WorkDecreases ==
    (pc = "traverse" /\ stack # <<>>) =>
        (pc' = "traverse" /\ PendingWork(stack') < PendingWork(stack))

\* C28: the HUDC traversal terminates: a cluster that is not selected is
\* re-clustered at (fork epsilon - 1) into at least two children, each a
\* strict sub-slice of it and no point in two of them, so every recursive
\* call works on a shorter slice and the pending work shrinks with every
\* call until fit returns
C28_TraversalTerminates ==
    /\ []ChildrenShrink
    /\ [][WorkDecreases]_vars

\* a descent below a cluster that was itself a child: the second level of
\* the recursion
C28_Witness ==
    /\ VisitDescended
    /\ Len(Val(visit).points) < Len(fit_array)
    /\ Val(visit).local_max_eps < Val(model.max_eps)
    /\ Len(ChildrenOf(Val(visit).points, Val(Val(visit).fork_epsilon))) >= 2

\* a call of fit on the hierarchical clusterer has returned
HUDCReturned == model.class = "UDBSCANxH" /\ pc = "returned"

\* the fit of the same array by the same model with the other method
ConservativeTwin == run([model EXCEPT !.method = "conservative"], fit_array)

\* every slice of fine lies inside a slice of coarse
Refines(fine, coarse) ==
    \A i \in 1..Len(fine) :
        \E j \in 1..Len(coarse) :
            coarse[j].lower <= fine[i].lower /\ fine[i].upper <= coarse[j].upper

\* the visited cluster is a seed: one of the clusters UDC finds in the whole
\* array at max_eps
SeedVisit ==
    /\ visit # None
    /\ \E i \in 1..Len(MergedWindows(fit_array, model.min_points,
                                     Val(model.max_eps), FALSE)) :
           LET seed == MergedWindows(fit_array, model.min_points,
                                     Val(model.max_eps), FALSE)[i]
           IN  IndexSet(Val(visit).points) = seed.lower..(seed.upper - 1)

\* the parent's support measured from the global ceiling E >= the support
\* of its children
GlobalRuleSelects(C, f) ==
    SumOver(C, [p \in C |-> Val(model.max_eps) - Max2(f, FlooredCoreDistance(p))])
        >= SumOver(C, [p \in C |-> Max2(0, f - FlooredCoreDistance(p))])

\* C29: for the same X, min_points, max_eps E and min_eps the slices of
\* method 'aggressive' refine those of method 'conservative': the local
\* ceiling never exceeds E, both methods make the same decision on every
\* seed cluster, and every aggressive slice lies inside a conservative one
C29_AggressiveRefines ==
    /\ (pc = "traverse" /\ visit # None) =>
           Val(visit).local_max_eps <= Val(model.max_eps)
    /\ (pc = "traverse" /\ SeedVisit /\ Val(visit).fork_epsilon # None) =>
           (Val(visit).selected <=>
                GlobalRuleSelects(IndexSet(Val(visit).points),
                                  Val(Val(visit).fork_epsilon)))
    /\ (HUDCReturned /\ model.method = "aggressive") =>
           /\ ConservativeTwin.error = ""
           /\ Refines(model.slices, ConservativeTwin.slices)

\* an aggressive fit that split a cluster the conservative fit keeps whole
C29_Witness ==
    /\ HUDCReturned
    /\ model.method = "aggressive"
    /\ Len(model.slices) > Len(ConservativeTwin.slices)
    /\ Len(ConservativeTwin.slices) >= 1

====
